---- MODULE Spec2Model ----
(***************************************************************************)
(* FlowTask: the natural-language recurrence / date extraction done by    *)
(* TaskModal.handleSubmit and the quick-add edge function, the display of  *)
(* a recurrence by formatRecurrence, the modal's submissions and preview,  *)
(* processTextWithAI, and the hold tags of the Notes panel.                *)
(*                                                                         *)
(* Strings are sequences of one-character strings, so that String.match,  *)
(* String.replace, trim, charAt/toUpperCase and padStart are computed as   *)
(* the JavaScript code computes them.                                      *)
(***************************************************************************)
EXTENDS Integers, Sequences, FiniteSets, TLC

(***************************************************************************)
(* Characters and the JavaScript string primitives the code uses.          *)
(***************************************************************************)
LowerLetters ==
  <<"a","b","c","d","e","f","g","h","i","j","k","l","m",
    "n","o","p","q","r","s","t","u","v","w","x","y","z">>

UpperLetters ==
  <<"A","B","C","D","E","F","G","H","I","J","K","L","M",
    "N","O","P","Q","R","S","T","U","V","W","X","Y","Z">>

DigitChars == <<"0","1","2","3","4","5","6","7","8","9">>

LowerSet == {LowerLetters[i] : i \in DOMAIN LowerLetters}

UpperSet == {UpperLetters[i] : i \in DOMAIN UpperLetters}

DigitSet == {DigitChars[i] : i \in DOMAIN DigitChars}

\* \w is [A-Za-z0-9_]
WordSet == LowerSet \cup UpperSet \cup DigitSet \cup {"_"}

LowerOf ==
  [c \in UpperSet |->
     LowerLetters[CHOOSE i \in DOMAIN UpperLetters : UpperLetters[i] = c]]

UpperOf ==
  [c \in LowerSet |->
     UpperLetters[CHOOSE i \in DOMAIN LowerLetters : LowerLetters[i] = c]]

DigitValue ==
  [c \in DigitSet |-> (CHOOSE i \in DOMAIN DigitChars : DigitChars[i] = c) - 1]

\* \d
IsDigit(c) == c \in DigitSet

\* \s (the titles of the model hold no other white space than the blank)
IsSpace(c) == c = " "

\* \w
IsWordChar(c) == c \in WordSet

\* String.prototype.toLowerCase on one character
ToLowerChar(c) == IF c \in UpperSet THEN LowerOf[c] ELSE c

\* String.prototype.toUpperCase on one character
ToUpperChar(c) == IF c \in LowerSet THEN UpperOf[c] ELSE c

\* String.prototype.toLowerCase
ToLowerCase(s) == [i \in 1..Len(s) |-> ToLowerChar(s[i])]

\* String.prototype.slice(from) with a 0-based index, as in s.slice(1)
Slice(s, from) == SubSeq(s, from + 1, Len(s))

RECURSIVE TrimStart(_)
TrimStart(s) ==
  IF s # <<>> /\ IsSpace(Head(s)) THEN TrimStart(Tail(s)) ELSE s

RECURSIVE TrimEnd(_)
TrimEnd(s) ==
  IF s # <<>> /\ IsSpace(s[Len(s)]) THEN TrimEnd(SubSeq(s, 1, Len(s) - 1)) ELSE s

\* String.prototype.trim
Trim(s) == TrimEnd(TrimStart(s))

\* the substring t stands in s at the 1-based position i (case-sensitive)
OccursAt(s, t, i) ==
  /\ i >= 1
  /\ i + Len(t) - 1 <= Len(s)
  /\ \A j \in 1..Len(t) : s[i + j - 1] = t[j]

\* String.prototype.includes
Includes(s, t) == \E i \in 1..(Len(s) + 1) : OccursAt(s, t, i)

\* String.prototype.indexOf, 1-based, 0 when t does not occur
IndexOf(s, t) ==
  IF Includes(s, t)
    THEN CHOOSE i \in 1..(Len(s) + 1) :
           /\ OccursAt(s, t, i)
           /\ \A j \in 1..(i - 1) : ~OccursAt(s, t, j)
    ELSE 0

\* s.replace(t, '') with a string pattern: the first occurrence of t goes
ReplaceFirst(s, t) ==
  LET i == IndexOf(s, t) IN
    IF i = 0 THEN s
    ELSE SubSeq(s, 1, i - 1) \o SubSeq(s, i + Len(t), Len(s))

\* s.charAt(0).toUpperCase() + s.slice(1), guarded by s.length > 0
Capitalize(s) ==
  IF Len(s) > 0 THEN <<ToUpperChar(s[1])>> \o Slice(s, 1) ELSE s

\* parseInt(s, 10) of a string of decimal digits
RECURSIVE ParseInt(_)
ParseInt(s) ==
  IF s = <<>> THEN 0
  ELSE 10 * ParseInt(SubSeq(s, 1, Len(s) - 1))
         + DigitValue[s[Len(s)]]

\* Number.prototype.toString of a natural number
RECURSIVE NumToString(_)
NumToString(n) ==
  IF n < 10 THEN <<DigitChars[n + 1]>>
  ELSE NumToString(n \div 10) \o <<DigitChars[(n % 10) + 1]>>

\* String.prototype.padStart(2, '0')
PadStart2(s) == IF Len(s) < 2 THEN <<"0">> \o s ELSE s

(***************************************************************************)
(* Regular expressions: a pattern is a sequence of atoms, matched with    *)
(* JavaScript's backtracking order (alternatives left to right, greedy     *)
(* repetition), all patterns of the code carrying the i flag.              *)
(***************************************************************************)
\* \b
B == [k |-> "b"]

\* a literal, written in lower case, compared ignoring case
Lit(w) == [k |-> "lit", w |-> w]

\* (a|b|...): the alternatives are tried in order
Alt(alts) == [k |-> "alt", alts |-> alts]

\* (...)?
Opt(body) == Alt(<<body, <<>>>>)

\* \s+ , \s* , \d+ , \d{1,2} , \d{2}: a greedy run of one character class
Rep(c, min, max) == [k |-> "rep", c |-> c, min |-> min, max |-> max]

\* the parentheses of capture group g
GroupOpen(g) == [k |-> "open", g |-> g]

GroupClose(g) == [k |-> "close", g |-> g]

\* capture groups of a match: <<start, end>> (end exclusive), <<0, 0>> when
\* the group took no part in the match (undefined in JavaScript)
NoGroups == [g \in 1..4 |-> <<0, 0>>]

NoMatch == [ok |-> FALSE, start |-> 0, end |-> 0, cap |-> NoGroups]

\* \b at position i, between s[i-1] and s[i]
WordBoundary(s, i) ==
  LET before == i > 1 /\ IsWordChar(s[i - 1])
      after  == i <= Len(s) /\ IsWordChar(s[i])
  IN before # after

LitAt(s, i, w) ==
  /\ i + Len(w) - 1 <= Len(s)
  /\ \A j \in 1..Len(w) : ToLowerChar(s[i + j - 1]) = w[j]

InClass(c, ch) == IF c = "s" THEN IsSpace(ch) ELSE IsDigit(ch)

\* the length of the run of class c that starts at i, at most max
\* characters long (no limit when max is negative)
RECURSIVE RunLength(_, _, _, _)
RunLength(s, i, c, max) ==
  IF max # 0 /\ i <= Len(s) /\ InClass(c, s[i])
    THEN 1 + RunLength(s, i + 1, c, max - 1)
    ELSE 0

RECURSIVE MatchHere(_, _, _, _)
RECURSIVE TryAlts(_, _, _, _, _, _)
RECURSIVE TryRep(_, _, _, _, _, _)

\* the atoms matched at position i; the result carries the end of the match
MatchHere(s, i, atoms, cap) ==
  IF atoms = <<>> THEN [ok |-> TRUE, start |-> 0, end |-> i, cap |-> cap]
  ELSE
    LET a == Head(atoms)
        rest == Tail(atoms)
    IN CASE a.k = "b" ->
              IF WordBoundary(s, i) THEN MatchHere(s, i, rest, cap) ELSE NoMatch
         [] a.k = "lit" ->
              IF LitAt(s, i, a.w)
                THEN MatchHere(s, i + Len(a.w), rest, cap)
                ELSE NoMatch
         [] a.k = "alt" -> TryAlts(s, i, a.alts, 1, rest, cap)
         [] a.k = "rep" ->
              TryRep(s, i, RunLength(s, i, a.c, a.max), a.min, rest, cap)
         [] a.k = "open" ->
              MatchHere(s, i, rest, [cap EXCEPT ![a.g] = <<i, 0>>])
         [] a.k = "close" ->
              MatchHere(s, i, rest, [cap EXCEPT ![a.g] = <<cap[a.g][1], i>>])

TryAlts(s, i, alts, n, rest, cap) ==
  IF n > Len(alts) THEN NoMatch
  ELSE LET r == MatchHere(s, i, alts[n] \o rest, cap) IN
         IF r.ok THEN r ELSE TryAlts(s, i, alts, n + 1, rest, cap)

TryRep(s, i, n, min, rest, cap) ==
  IF n < min THEN NoMatch
  ELSE LET r == MatchHere(s, i + n, rest, cap) IN
         IF r.ok THEN r ELSE TryRep(s, i, n - 1, min, rest, cap)

RECURSIVE ExecFrom(_, _, _)
ExecFrom(s, atoms, i) ==
  IF i > Len(s) + 1 THEN NoMatch
  ELSE LET r == MatchHere(s, i, atoms, NoGroups) IN
         IF r.ok THEN [r EXCEPT !.start = i] ELSE ExecFrom(s, atoms, i + 1)

\* String.prototype.match(regex) without the g flag: the leftmost match
RegexMatch(s, atoms) == ExecFrom(s, atoms, 1)

\* match[0]
MatchText(s, m) == SubSeq(s, m.start, m.end - 1)

\* match[g], the empty sequence standing for undefined
Group(s, m, g) == SubSeq(s, m.cap[g][1], m.cap[g][2] - 1)

(***************************************************************************)
(* The words the patterns of the code are made of, spelled as characters.  *)
(***************************************************************************)
W ==
  [
    every    |-> <<"e","v","e","r","y">>,
    day      |-> <<"d","a","y">>,
    daily    |-> <<"d","a","i","l","y">>,
    week     |-> <<"w","e","e","k">>,
    weekly   |-> <<"w","e","e","k","l","y">>,
    month    |-> <<"m","o","n","t","h">>,
    monthly  |-> <<"m","o","n","t","h","l","y">>,
    year     |-> <<"y","e","a","r">>,
    yearly   |-> <<"y","e","a","r","l","y">>,
    annually |-> <<"a","n","n","u","a","l","l","y">>,
    mon      |-> <<"m","o","n">>,
    tue      |-> <<"t","u","e">>,
    sday     |-> <<"s","d","a","y">>,
    wed      |-> <<"w","e","d">>,
    nesday   |-> <<"n","e","s","d","a","y">>,
    thu      |-> <<"t","h","u">>,
    rsday    |-> <<"r","s","d","a","y">>,
    fri      |-> <<"f","r","i">>,
    sat      |-> <<"s","a","t">>,
    urday    |-> <<"u","r","d","a","y">>,
    sun      |-> <<"s","u","n">>,
    hour     |-> <<"h","o","u","r">>,
    s        |-> <<"s">>,
    other    |-> <<"o","t","h","e","r">>,
    second   |-> <<"s","e","c","o","n","d">>,
    weekdays |-> <<"w","e","e","k","d","a","y","s">>,
    weekday  |-> <<"w","e","e","k","d","a","y">>,
    weekends |-> <<"w","e","e","k","e","n","d","s">>,
    weekend  |-> <<"w","e","e","k","e","n","d">>,
    at       |-> <<"a","t">>,
    am       |-> <<"a","m">>,
    pm       |-> <<"p","m">>,
    tomorrow |-> <<"t","o","m","o","r","r","o","w">>,
    today    |-> <<"t","o","d","a","y">>,
    nd2      |-> <<"2","n","d">>,
    colon    |-> <<":">>
  ]

\* \s+
Spaces1 == [k |-> "rep", c |-> "s", min |-> 1, max |-> -1]

\* \s*
Spaces0 == [k |-> "rep", c |-> "s", min |-> 0, max |-> -1]

\* \d+
Digits1 == [k |-> "rep", c |-> "d", min |-> 1, max |-> -1]

\* (mon(day)?|tue(sday)?|wed(nesday)?|thu(rsday)?|fri(day)?|sat(urday)?|sun(day)?)
WeekdayAlt ==
  Alt(<< <<Lit(W.mon), Opt(<<Lit(W.day)>>)>>,
         <<Lit(W.tue), Opt(<<Lit(W.sday)>>)>>,
         <<Lit(W.wed), Opt(<<Lit(W.nesday)>>)>>,
         <<Lit(W.thu), Opt(<<Lit(W.rsday)>>)>>,
         <<Lit(W.fri), Opt(<<Lit(W.day)>>)>>,
         <<Lit(W.sat), Opt(<<Lit(W.urday)>>)>>,
         <<Lit(W.sun), Opt(<<Lit(W.day)>>)>> >>)

\* the rule table of handleSubmit, in the order the loop tries it
recurringPatterns ==
  << \* /\b(every\s+day|daily)\b/i
     [pattern |-> <<B, Alt(<< <<Lit(W.every), Spaces1, Lit(W.day)>>,
                              <<Lit(W.daily)>> >>), B>>,
      frequency |-> "daily"],
     \* /\b(every\s+week|weekly)\b/i
     [pattern |-> <<B, Alt(<< <<Lit(W.every), Spaces1, Lit(W.week)>>,
                              <<Lit(W.weekly)>> >>), B>>,
      frequency |-> "weekly"],
     \* /\b(every\s+month|monthly)\b/i
     [pattern |-> <<B, Alt(<< <<Lit(W.every), Spaces1, Lit(W.month)>>,
                              <<Lit(W.monthly)>> >>), B>>,
      frequency |-> "monthly"],
     \* /\b(every\s+year|yearly|annually)\b/i
     [pattern |-> <<B, Alt(<< <<Lit(W.every), Spaces1, Lit(W.year)>>,
                              <<Lit(W.yearly)>>,
                              <<Lit(W.annually)>> >>), B>>,
      frequency |-> "yearly"],
     \* /\bevery\s+(mon(day)?|...|sun(day)?)\b/i
     [pattern |-> <<B, Lit(W.every), Spaces1, WeekdayAlt, B>>,
      frequency |-> "weekly"],
     \* /\bevery\s+\d+\s+hours?\b/i
     [pattern |-> <<B, Lit(W.every), Spaces1, Digits1, Spaces1,
                    Lit(W.hour), Opt(<<Lit(W.s)>>), B>>,
      frequency |-> "daily"],
     \* /\bevery\s+(other|2nd|second)\s+(mon(day)?|...|sun(day)?)\b/i
     [pattern |-> <<B, Lit(W.every), Spaces1,
                    Alt(<< <<Lit(W.other)>>, <<Lit(W.nd2)>>, <<Lit(W.second)>> >>),
                    Spaces1, WeekdayAlt, B>>,
      frequency |-> "weekly"],
     \* /\b(weekdays|every\s+weekday)\b/i
     [pattern |-> <<B, Alt(<< <<Lit(W.weekdays)>>,
                              <<Lit(W.every), Spaces1, Lit(W.weekday)>> >>), B>>,
      frequency |-> "daily"],
     \* /\b(weekends|every\s+weekend)\b/i
     [pattern |-> <<B, Alt(<< <<Lit(W.weekends)>>,
                              <<Lit(W.every), Spaces1, Lit(W.weekend)>> >>), B>>,
      frequency |-> "weekly"] >>

\* /\b(at\s+)?(\d{1,2})(:\d{2})?\s*(am|pm|AM|PM)?\b/i
timePattern ==
  <<B,
    Opt(<<GroupOpen(1), Lit(W.at), Spaces1, GroupClose(1)>>),
    GroupOpen(2), Rep("d", 1, 2), GroupClose(2),
    Opt(<<GroupOpen(3), Lit(W.colon), Rep("d", 2, 2), GroupClose(3)>>),
    Spaces0,
    Opt(<<GroupOpen(4), Alt(<< <<Lit(W.am)>>, <<Lit(W.pm)>>,
                          <<Lit(W.am)>>, <<Lit(W.pm)>> >>), GroupClose(4)>>),
    B>>

\* an optional value: <<>> is undefined, <<v>> is the value v
Undefined == <<>>

Some(v) == <<v>>

Defined(o) == o # <<>>

(***************************************************************************)
(* The conversion of the matched time to the stored "HH:MM"               *)
(* (TaskModal.tsx lines 115-126).                                          *)
(***************************************************************************)
\* the conversion without the rule for 12am (line 121)
ConvertHoursNoMidnight(hourText, meridiem) ==
  LET hours == ParseInt(hourText) IN
    IF meridiem # <<>>
      THEN IF ToLowerCase(meridiem) = W.pm /\ hours # 12 THEN hours + 12 ELSE hours
      ELSE IF hours >= 1 /\ hours <= 11 THEN hours + 12 ELSE hours

\* the conversion with the PM default reaching 12 (line 122 with <= 12)
ConvertHoursDefaultTo12(hourText, meridiem) ==
  LET hours == ParseInt(hourText) IN
    IF meridiem # <<>>
      THEN LET isPM == ToLowerCase(meridiem) = W.pm
               h1 == IF isPM /\ hours # 12 THEN hours + 12 ELSE hours
           IN IF ~isPM /\ h1 = 12 THEN 0 ELSE h1
      ELSE IF hours >= 1 /\ hours <= 12 THEN hours + 12 ELSE hours

\* lines 115, 118-124: the hour after the meridiem rules
ConvertHours(hourText, meridiem) ==
  LET hours == ParseInt(hourText) IN
    IF meridiem # <<>>
      THEN LET isPM == ToLowerCase(meridiem) = W.pm
               h1 == IF isPM /\ hours # 12 THEN hours + 12 ELSE hours
           IN IF ~isPM /\ h1 = 12 THEN 0 ELSE h1
      ELSE IF hours >= 1 /\ hours <= 11 THEN hours + 12 ELSE hours

\* line 116: timeMatch[3] ? parseInt(timeMatch[3].slice(1), 10) : 0
ConvertMinutes(minuteText) ==
  IF minuteText # <<>> THEN ParseInt(Slice(minuteText, 1)) ELSE 0

\* line 126
FormatTime(hours, minutes) ==
  PadStart2(NumToString(hours)) \o W.colon \o PadStart2(NumToString(minutes))

\* '09:00'
DefaultTime == <<"0","9",":","0","0">>

(***************************************************************************)
(* customChrono.parse: src/lib/chronoConfig is not part of the sources at  *)
(* hand.  It is modelled from the specification (section 4.1, step 3): a   *)
(* parser that returns the first date expression of the text with the      *)
(* matched text span.  The model knows the expressions `tomorrow`, `today`,*)
(* each with an optional `at H[:MM][am|pm]`, and a time alone (`at H...`   *)
(* or `H[:MM]am|pm`).                                                      *)
(***************************************************************************)
chronoClock ==
  Alt(<< <<Lit(W.at), Spaces1, Rep("d", 1, 2),
           Opt(<<Lit(W.colon), Rep("d", 2, 2)>>),
           Opt(<<Spaces0, Alt(<< <<Lit(W.am)>>, <<Lit(W.pm)>> >>)>>)>>,
         <<Rep("d", 1, 2),
           Opt(<<Lit(W.colon), Rep("d", 2, 2)>>),
           Spaces0, Alt(<< <<Lit(W.am)>>, <<Lit(W.pm)>> >>)>> >>)

chronoPattern ==
  <<B,
    Alt(<< <<GroupOpen(1), Alt(<< <<Lit(W.tomorrow)>>, <<Lit(W.today)>> >>),
             GroupClose(1),
             Opt(<<Spaces1, GroupOpen(2), chronoClock, GroupClose(2)>>)>>,
           <<GroupOpen(2), chronoClock, GroupClose(2)>> >>),
    B>>

\* the parsed results for a match m of the text: none, or the first result
\* with its text and the date it stands for (the day word and the clock text)
ChronoResults(text, m) ==
  IF ~m.ok THEN <<>>
  ELSE << [text |-> MatchText(text, m),
           date |-> [day |-> ToLowerCase(Group(text, m, 1)),
                     clock |-> ToLowerCase(Group(text, m, 2))]] >>

\* customChrono.parse(text)
ChronoParse(text) == ChronoResults(text, RegexMatch(text, chronoPattern))

(***************************************************************************)
(* TaskModal.handleSubmit, lines 79-150: the extraction.                   *)
(***************************************************************************)
\* a rule match that keeps the frequency of the rule and not the text
RuleMatchNoText(title, n, match) ==
  [rule |-> n,
   frequency |-> recurringPatterns[n].frequency,
   match0 |-> <<>>]

\* lines 99-100: rule n of the table matched the title with match
RuleMatch(title, n, match) ==
  [rule |-> n,
   frequency |-> recurringPatterns[n].frequency,
   match0 |-> MatchText(title, match)]

\* lines 98-100, 134: the first rule of the table that matches the title
RECURSIVE FirstRule(_, _)
FirstRule(title, n) ==
  IF n > Len(recurringPatterns) THEN Undefined
  ELSE IF RegexMatch(title, recurringPatterns[n].pattern).ok
         THEN Some(RuleMatch(title, n, RegexMatch(title, recurringPatterns[n].pattern)))
         ELSE FirstRule(title, n + 1)

\* lines 113-114: timeMatch && timeMatch[2], with the groups the code reads
TimeGroups(title, m) ==
  IF m.ok /\ Group(title, m, 2) # <<>>
    THEN Some([match0 |-> MatchText(title, m),
               start |-> m.start,
               hour |-> Group(title, m, 2),
               minute |-> Group(title, m, 3),
               meridiem |-> Group(title, m, 4)])
    ELSE Undefined

\* line 113: title.match(time pattern)
TimeMatch(title) == TimeGroups(title, RegexMatch(title, timePattern))

\* lines 106-110 and 129-132: remove the text, trim, re-capitalize
StripAndCapitalize(text, span) == Capitalize(Trim(ReplaceFirst(text, span)))

\* single-date parsing that runs whatever the loop found
TriesSingleDateAlways(detectedRecurrence) == TRUE

\* line 139: single-date parsing runs only when no recurrence was detected
TriesSingleDate(detectedRecurrence) == ~Defined(detectedRecurrence)

\* lines 115-126: the stored time of a time match
TimeOf(tm) ==
  FormatTime(ConvertHours(tm.hour, tm.meridiem), ConvertMinutes(tm.minute))

\* lines 101-133: the locals once a rule matched
RecurrenceLocals(title, rule, timeMatch) ==
  [extractedTitle |->
     IF Defined(timeMatch)
       THEN StripAndCapitalize(StripAndCapitalize(title, rule.match0),
                               timeMatch[1].match0)
       ELSE StripAndCapitalize(title, rule.match0),
   extractedDate |-> Undefined,
   detectedRecurrence |->
     Some([frequency |-> rule.frequency,
           time |-> IF Defined(timeMatch) THEN TimeOf(timeMatch[1]) ELSE DefaultTime,
           originalText |-> rule.match0]),
   timeMatch |-> timeMatch,
   rule |-> rule.rule,
   dateText |-> <<>>]

\* lines 80-136: the locals after the loop over the rules
RecurrenceStep(title, rule) ==
  IF Defined(rule)
    THEN RecurrenceLocals(title, rule[1], TimeMatch(title))
    ELSE [extractedTitle |-> Trim(title),
          extractedDate |-> Undefined,
          detectedRecurrence |-> Undefined,
          timeMatch |-> Undefined,
          rule |-> 0,
          dateText |-> <<>>]

\* lines 326-330 (the live preview)
numberWords ==
  <<[word |-> <<"o","n","e">>, number |-> <<"1">>],
    [word |-> <<"t","w","o">>, number |-> <<"2">>],
    [word |-> <<"t","h","r","e","e">>, number |-> <<"3">>],
    [word |-> <<"f","o","u","r">>, number |-> <<"4">>],
    [word |-> <<"f","i","v","e">>, number |-> <<"5">>],
    [word |-> <<"s","i","x">>, number |-> <<"6">>],
    [word |-> <<"s","e","v","e","n">>, number |-> <<"7">>],
    [word |-> <<"e","i","g","h","t">>, number |-> <<"8">>],
    [word |-> <<"n","i","n","e">>, number |-> <<"9">>],
    [word |-> <<"t","e","n">>, number |-> <<"1","0">>],
    [word |-> <<"e","l","e","v","e","n">>, number |-> <<"1","1">>],
    [word |-> <<"t","w","e","l","v","e">>, number |-> <<"1","2">>]>>

\* line 334: result.replace(new RegExp(`\\b${word}\\b`, 'gi'), number)
RECURSIVE ReplaceAllWord(_, _, _, _)
ReplaceAllWord(s, word, number, i) ==
  IF i > Len(s) THEN <<>>
  ELSE IF WordBoundary(s, i) /\ LitAt(s, i, word) /\ WordBoundary(s, i + Len(word))
    THEN number \o ReplaceAllWord(s, word, number, i + Len(word))
    ELSE <<s[i]>> \o ReplaceAllWord(s, word, number, i + 1)

\* lines 331-336: the words of the table replaced one after the other
RECURSIVE ExpandFrom(_, _)
ExpandFrom(text, n) ==
  IF n > Len(numberWords) THEN text
  ELSE ExpandFrom(ReplaceAllWord(text, numberWords[n].word, numberWords[n].number, 1),
                  n + 1)

\* lines 325-337
ExpandNumberWords(text) == ExpandFrom(text, 1)

\* lines 339-340: the text the live preview hands to customChrono.parse
PreviewParsedText(title) == ExpandNumberWords(title)

\* line 140: the text handleSubmit hands to customChrono.parse
SubmitParsedText(title) == Trim(title)

\* lines 141-149
SingleDateLocals(title, x, parsedFromTitle) ==
  IF Len(parsedFromTitle) > 0
    THEN [x EXCEPT !.extractedDate = Some(parsedFromTitle[1].date),
                   !.dateText = parsedFromTitle[1].text,
                   !.extractedTitle =
                      StripAndCapitalize(title, parsedFromTitle[1].text)]
    ELSE x

\* lines 139-150
SingleDateStep(title, x) ==
  IF TriesSingleDate(x.detectedRecurrence)
    THEN SingleDateLocals(title, x, ChronoParse(SubmitParsedText(title)))
    ELSE x

\* lines 80-150: the locals of handleSubmit when it reaches the AI call:
\* extractedTitle, extractedDate, detectedRecurrence and timeMatch as in the
\* code, rule the index of the rule that matched (0 for none), dateText
\* parsedFromTitle[0].text
Extract(title) == SingleDateStep(title, RecurrenceStep(title, FirstRule(title, 1)))

(***************************************************************************)
(* The live preview under the title input (TaskModal.tsx, lines 265-349).  *)
(***************************************************************************)
\* line 267: /\b(every\s+(other\s+)?\d*\s*(day|week|month|year|hours?|
\* mon(day)?|...|sun(day)?)|daily|weekly|monthly|yearly|annually|weekdays?|
\* weekends?)\b/i
previewPattern ==
  <<B,
    Alt(<< <<Lit(W.every), Spaces1, Opt(<<Lit(W.other), Spaces1>>),
             Rep("d", 0, -1), Spaces0,
             Alt(<< <<Lit(W.day)>>, <<Lit(W.week)>>, <<Lit(W.month)>>,
                    <<Lit(W.year)>>, <<Lit(W.hour), Opt(<<Lit(W.s)>>)>>,
                    <<WeekdayAlt>> >>)>>,
           <<Lit(W.daily)>>, <<Lit(W.weekly)>>, <<Lit(W.monthly)>>,
           <<Lit(W.yearly)>>, <<Lit(W.annually)>>,
           <<Lit(W.weekday), Opt(<<Lit(W.s)>>)>>,
           <<Lit(W.weekend), Opt(<<Lit(W.s)>>)>> >>),
    B>>

\* lines 267-348: what the preview announces for the title: a recurring
\* pattern, a date, or nothing
PreviewClass(title) ==
  IF RegexMatch(title, previewPattern).ok THEN "recurring"
  ELSE IF Len(ChronoParse(PreviewParsedText(title))) > 0 THEN "date"
  ELSE "none"

\* lines 168-177: what handleSubmit creates from its locals x: an item with
\* a recurrence, with a reminder date, or a plain task
SubmitClass(x) ==
  IF Defined(x.detectedRecurrence) THEN "recurring"
  ELSE IF Defined(x.extractedDate) THEN "date"
  ELSE "none"

(***************************************************************************)
(* The titles the user types: up to MaxPhrases phrases joined by blanks,   *)
(* and a recurrence word followed by each clock time up to MaxHour.        *)
(***************************************************************************)
MaxPhrases == 3

MaxHour == 24

Phrases ==
  {
     <<"e","v","e","r","y"," ","t","u","e","s","d","a","y">>,
     <<"d","a","i","l","y">>,
     <<"e","v","e","r","y"," ","3"," ","h","o","u","r","s">>,
     <<"e","v","e","r","y"," ","o","t","h","e","r"," ","t","u","e">>,
     <<"w","e","e","k","l","y">>,
     <<"a","t"," ","6","p","m">>,
     <<"c","a","l","l"," ","m","o","m">>,
     <<"t","o","m","o","r","r","o","w">>,
     <<"b","u","y"," ","3"," ","a","p","p","l","e","s">>,
     <<"u","n","d","a","i","l","y">>,
     <<"E","v","e","r","y"," "," ","M","o","n","t","h">>,
     <<"a","n","n","u","a","l","l","y">>,
     <<"w","e","e","k","d","a","y","s">>,
     <<"e","v","e","r","y"," ","w","e","e","k","e","n","d">>
  }

RECURSIVE PhraseTitles(_)
PhraseTitles(n) ==
  IF n = 1 THEN Phrases
  ELSE LET shorter == PhraseTitles(n - 1) IN
         shorter \cup {t \o <<" ">> \o p : t \in shorter, p \in Phrases}

MinuteTexts == {<<>>, <<":","0","5">>, <<":","7","5">>}

MeridiemTexts == {<<>>, W.am, W.pm, <<" ","P","M">>}

ClockTitles ==
  {W.daily \o <<" ">> \o at \o NumToString(h) \o mm \o mer :
     at \in {<<>>, W.at \o <<" ">>}, h \in 0..MaxHour,
     mm \in MinuteTexts, mer \in MeridiemTexts}

\* titles with spelled-out numbers
NumberWordTitles ==
  {
     <<"c","a","l","l"," ","m","o","m"," ","a","t"," ","t","h","r","e","e">>,
     <<"t","o","m","o","r","r","o","w"," ","a","t"," ","s","i","x">>,
     <<"A","t"," ","T","H","R","E","E"," ","p","m"," ","c","a","l","l">>,
     <<"c","a","l","l"," ","s","o","m","e","o","n","e"," ","t","o","m","o","r","r","o","w">>,
     <<"t","w","e","l","v","e"," ","a","p","p","l","e","s"," ","d","a","i","l","y">>
  }

\* titles with the other forms of the biweekly phrase
BiweeklyTitles ==
  {
     <<"e","v","e","r","y"," ","2","n","d"," ","f","r","i"," ","c","a","l","l">>,
     <<"E","v","e","r","y"," ","s","e","c","o","n","d"," ","S","u","n","d","a","y"," ","a","t"," ","6","p","m">>,
     <<"p","a","y"," ","r","e","n","t"," ","e","v","e","r","y"," ","o","t","h","e","r"," ","m","o","n","d","a","y">>
  }

\* titles with a singular weekend or weekday
SingularTitles ==
  {
     <<"w","e","e","k","e","n","d"," ","p","l","a","n","s">>,
     <<"w","e","e","k","d","a","y"," ","r","e","v","i","e","w">>
  }

Titles ==
  PhraseTitles(MaxPhrases) \cup ClockTitles \cup NumberWordTitles
    \cup BiweeklyTitles \cup SingularTitles

(***************************************************************************)
(* processTextWithAI (lib/ai): the completion service is outside the      *)
(* program; what it answers is an input.  A completion is                  *)
(* [throws, content, matchedId, priority]: whether a call throws, the      *)
(* corrected text it returns (<<>> for an empty answer), the list id it    *)
(* returns ("" for an empty answer), and the priority the service gives    *)
(* the task, which neither of the two calls asks for.                      *)
(***************************************************************************)
\* the function without the lookup of line 240
ProcessTextWithAITrusting(text, lists, completion) ==
  IF completion.throws
    THEN [correctedText |-> text, suggestedListId |-> Undefined]
    ELSE [correctedText |-> Trim(IF completion.content # <<>>
                                   THEN completion.content ELSE text),
          suggestedListId |->
            IF Len(lists) > 0 /\ completion.matchedId # ""
              THEN Some(completion.matchedId) ELSE Undefined]

ProcessTextWithAI(text, lists, completion) ==
  IF completion.throws
    THEN [correctedText |-> text, suggestedListId |-> Undefined]
    ELSE LET correctedText == IF completion.content # <<>>
                                THEN completion.content ELSE text
             known == \E i \in DOMAIN lists : lists[i].id = completion.matchedId
         IN [correctedText |-> Trim(correctedText),
             suggestedListId |->
               IF Len(lists) > 0 /\ completion.matchedId # "" /\ known
                 THEN Some(completion.matchedId) ELSE Undefined]

\* an answer of the service that rewrites the title
CorrectedAnswer == <<"C","a","l","l"," ","M","o","m">>

Completions(text) ==
  [throws : BOOLEAN,
   content : {text, <<>>, CorrectedAnswer},
   matchedId : {"l1", "unknown", ""},
   priority : {"now", "high", "low"}]

(***************************************************************************)
(* TaskModal.handleSubmit, lines 152-201: the item handed to addItem.      *)
(***************************************************************************)
\* lines 168-169
ItemType(extractedDate, detectedRecurrence) ==
  IF Defined(extractedDate) \/ Defined(detectedRecurrence) THEN "reminder" ELSE "task"

\* line 171
ReminderDateOf(extractedDate, detectedRecurrence) ==
  IF Defined(extractedDate) /\ ~Defined(detectedRecurrence)
    THEN extractedDate ELSE Undefined

\* lines 173-177
RecurrenceOf(detectedRecurrence) ==
  IF Defined(detectedRecurrence)
    THEN Some([frequency |-> detectedRecurrence[1].frequency,
               time |-> detectedRecurrence[1].time,
               originalText |-> detectedRecurrence[1].originalText])
    ELSE Undefined

\* lines 181-191
TargetListId(aiListId, listId, lists) ==
  IF Defined(aiListId) THEN aiListId[1]
  ELSE IF listId = "all"
         THEN (IF Len(lists) > 0 THEN lists[1].id ELSE "undefined")
         ELSE listId

\* lines 193-201; defaultColumn || 'start' takes 'start' for an empty column
NewItem(text, priority, column, target, date, recurrence) ==
  LET itemType == ItemType(date, recurrence) IN
    [type |-> itemType,
     title |-> text,
     priority |-> priority,
     status |-> IF itemType = "task"
                  THEN (IF Defined(column) /\ column[1] # "" THEN column[1] ELSE "start")
                  ELSE "within7",
     listId |-> target,
     reminderDate |-> ReminderDateOf(date, recurrence),
     recurrence |-> RecurrenceOf(recurrence)]

\* line 159: processed.suggestedPriority || 'low'
AiSuggestedPriority(processed) ==
  IF "suggestedPriority" \in DOMAIN processed /\ processed.suggestedPriority # ""
    THEN processed.suggestedPriority ELSE "low"

\* lines 157-201: the addItem argument of a handleSubmit with locals x,
\* default column column, current list listId and the store's lists, once
\* the AI call gave processed
ItemAfterAI(x, column, listId, lists, processed) ==
  NewItem(processed.correctedText, AiSuggestedPriority(processed), column,
          TargetListId(processed.suggestedListId, listId, lists),
          x.extractedDate, x.detectedRecurrence)

\* lines 205-212
TargetView(item) ==
  IF Defined(item.recurrence) THEN "recurring"
  ELSE IF Defined(item.reminderDate) THEN "reminders" ELSE "tasks"

\* lines 63-70, in create mode
DuplicateExists(storeItems, text) ==
  LET normalizedTitle == ToLowerCase(Trim(text)) IN
    \E i \in DOMAIN storeItems :
      /\ ~Defined(storeItems[i].deletedAt)
      /\ storeItems[i].status # "complete"
      /\ ToLowerCase(storeItems[i].title) = normalizedTitle

(***************************************************************************)
(* The quick-add edge function (supabase/functions/quick-add/index.ts).    *)
(* A request is [method, authHeader, text, reminder_date, recurrence]:     *)
(* text is Undefined when the body has no string there, reminder_date is   *)
(* Undefined or [valid, days] (whether new Date() gives a valid date, and  *)
(* the days from now to it), recurrence is Undefined or the client's       *)
(* descriptor.                                                             *)
(***************************************************************************)
\* lines 108-110: parsed.correctedText || text, parsed.listId,
\* parsed.priority || 'low'
ParsedFields(parsed, text) ==
  [correctedText |-> IF parsed.correctedText # <<>> THEN parsed.correctedText ELSE text,
   listId |-> parsed.listId,
   priority |-> IF parsed.priority # "" THEN parsed.priority ELSE "low"]

\* lines 113-118: strip the client's recurrence phrase from the corrected text
StripRecurrenceText(correctedText, clientRecurrence) ==
  IF Defined(clientRecurrence) /\ clientRecurrence[1].originalText # <<>>
    THEN Capitalize(Trim(ReplaceFirst(correctedText, clientRecurrence[1].originalText)))
    ELSE correctedText

\* the check of line 121 without the lookup in the user's lists
ListIdUnknownWhenEmpty(listId, lists) == listId = ""

\* line 121: !listId || !lists?.find(l => l.id === listId)
ListIdUnknown(listId, lists) ==
  \/ listId = ""
  \/ ~Defined(lists)
  \/ ~\E i \in DOMAIN lists[1] : lists[1][i].id = listId

\* lines 143-145: the client's recurrence, when given
DetectedRecurrence(clientRecurrence) == clientRecurrence

\* lines 146-149: the client's date counts only when no recurrence came
ExtractedDate(clientRecurrence, reminder_date) ==
  IF Defined(clientRecurrence) THEN Undefined ELSE reminder_date

\* lines 176-184: the status of a single-date reminder
DateStatus(diffDays) ==
  IF diffDays <= 1 THEN "today" ELSE IF diffDays <= 7 THEN "within7" ELSE "7plus"

\* line 172: toISOString throws a RangeError on an invalid date
DateThrows(clientRecurrence, reminder_date) ==
  /\ ~Defined(DetectedRecurrence(clientRecurrence))
  /\ Defined(ExtractedDate(clientRecurrence, reminder_date))
  /\ ~ExtractedDate(clientRecurrence, reminder_date)[1].valid

\* lines 152-204: the row built from the locals
ItemRow(correctedText, priority, listId, userId, detectedRecurrence, extractedDate) ==
  [type |-> IF Defined(extractedDate) \/ Defined(detectedRecurrence)
              THEN "reminder" ELSE "task",
   title |-> correctedText,
   priority |-> priority,
   status |-> IF Defined(detectedRecurrence) THEN "within7"
              ELSE IF Defined(extractedDate) THEN DateStatus(extractedDate[1].days)
              ELSE "start",
   list_id |-> listId,
   user_id |-> userId,
   reminder_date |-> IF ~Defined(detectedRecurrence) /\ Defined(extractedDate)
                       THEN extractedDate ELSE Undefined,
   recurrence |-> detectedRecurrence]

\* a row that stores both of the client's fields as they came
ItemDataBoth(correctedText, priority, listId, userId, clientRecurrence, reminder_date) ==
  [ItemRow(correctedText, priority, listId, userId, clientRecurrence, reminder_date)
     EXCEPT !.reminder_date = reminder_date]

\* a row whose type follows the date alone
ItemDataTypeByDate(correctedText, priority, listId, userId, clientRecurrence, reminder_date) ==
  [ItemRow(correctedText, priority, listId, userId,
           DetectedRecurrence(clientRecurrence),
           ExtractedDate(clientRecurrence, reminder_date))
     EXCEPT !.type = IF Defined(ExtractedDate(clientRecurrence, reminder_date))
                       THEN "reminder" ELSE "task"]

\* lines 139-204: the row to insert, from the client's recurrence and date
ItemData(correctedText, priority, listId, userId, clientRecurrence, reminder_date) ==
  ItemRow(correctedText, priority, listId, userId,
          DetectedRecurrence(clientRecurrence),
          ExtractedDate(clientRecurrence, reminder_date))

\* the inputs of the quick-add handler
QATexts ==
  {Undefined,
   Some(W.daily \o <<" ">> \o W.daily),
   Some(<<"c","a","l","l"," ">> \o W.daily),
   Some(<<"b","u","y"," ","m","i","l","k">>)}

QARecurrences ==
  {Undefined,
   Some([frequency |-> "daily", time |-> DefaultTime, originalText |-> W.daily]),
   Some([frequency |-> "daily", time |-> DefaultTime, originalText |-> <<>>])}

QADates ==
  {Undefined, Some([valid |-> FALSE, days |-> 0]), Some([valid |-> TRUE, days |-> 1]),
   Some([valid |-> TRUE, days |-> 5]), Some([valid |-> TRUE, days |-> 9])}

\* the body is a JSON object with the three fields, or it is empty and no
\* JSON at all
Requests ==
  { r \in [method : {"OPTIONS", "POST"},
           authHeader : BOOLEAN,
           body : {"json", "empty"},
           text : QATexts,
           reminder_date : QADates,
           recurrence : QARecurrences] :
      r.body = "empty" =>
        /\ r.text = Undefined
        /\ r.reminder_date = Undefined
        /\ r.recurrence = Undefined }

\* what the completion service may answer, as the parsed JSON object
\* (<<>> and "" for the fields it leaves out)
QAAnswers(text) ==
  [correctedText : {<<>>, text, CorrectedAnswer \o <<" ">> \o W.daily},
   listId : {"", "l1", "unknown"},
   priority : {"", "high"}]

NoRequest ==
  [method |-> "", authHeader |-> FALSE, body |-> "", text |-> Undefined,
   reminder_date |-> Undefined, recurrence |-> Undefined]

NoQuickAdd ==
  [user |-> Undefined, lists |-> Undefined, parsedListId |-> "",
   correctedText |-> <<>>, listId |-> "", priority |-> "",
   itemData |-> Undefined]

(***************************************************************************)
(* formatRecurrence (lib/formatRecurrence.ts): the display string of a     *)
(* recurrence.  A descriptor is a record of the seven fields of            *)
(* RecurrenceSettings; a field other than frequency is Undefined when the  *)
(* object has none, and Some(value) otherwise.  A call that can throw      *)
(* gives [threw, text].                                                    *)
(***************************************************************************)
\* line 13
DAYS_OF_WEEK ==
  <<<<"S","u","n","d","a","y">>,
    <<"M","o","n","d","a","y">>,
    <<"T","u","e","s","d","a","y">>,
    <<"W","e","d","n","e","s","d","a","y">>,
    <<"T","h","u","r","s","d","a","y">>,
    <<"F","r","i","d","a","y">>,
    <<"S","a","t","u","r","d","a","y">>>>

\* line 14
MONTHS ==
  <<<<"J","a","n","u","a","r","y">>,
    <<"F","e","b","r","u","a","r","y">>,
    <<"M","a","r","c","h">>,
    <<"A","p","r","i","l">>,
    <<"M","a","y">>,
    <<"J","u","n","e">>,
    <<"J","u","l","y">>,
    <<"A","u","g","u","s","t">>,
    <<"S","e","p","t","e","m","b","e","r">>,
    <<"O","c","t","o","b","e","r">>,
    <<"N","o","v","e","m","b","e","r">>,
    <<"D","e","c","e","m","b","e","r">>>>

\* the literal parts of the template strings of lines 20-25, 35, 39, 95-143
Template ==
  [
    every      |-> <<"E","v","e","r","y"," ">>,
    minute     |-> <<" ","m","i","n","u","t","e">>,
    plural     |-> <<"s">>,
    starting   |-> <<" ","s","t","a","r","t","i","n","g"," ","a","t"," ">>,
    hour       |-> <<"h","o","u","r">>,
    hours      |-> <<" ","h","o","u","r","s">>,
    daily      |-> <<"D","a","i","l","y"," ","a","t"," ">>,
    biweekly   |-> <<"B","i","w","e","e","k","l","y">>,
    weekly     |-> <<"W","e","e","k","l","y">>,
    on         |-> <<" ","o","n"," ">>,
    at         |-> <<" ","a","t"," ">>,
    monthlyOn  |-> <<"M","o","n","t","h","l","y"," ","o","n"," ","t","h","e"," ">>,
    monthly    |-> <<"M","o","n","t","h","l","y">>,
    yearlyOn   |-> <<"Y","e","a","r","l","y"," ","o","n"," ">>,
    yearly     |-> <<"Y","e","a","r","l","y">>,
    space      |-> <<" ">>,
    undefined  |-> <<"u","n","d","e","f","i","n","e","d">>,
    fallback   |-> <<"9",":","0","0"," ","A","M">>,
    am         |-> <<" ","A","M">>,
    pm         |-> <<" ","P","M">>,
    st         |-> <<"s","t">>,
    nd         |-> <<"n","d">>,
    rd         |-> <<"r","d">>,
    th         |-> <<"t","h">>
  ]

\* ${frequency} of line 143: the frequencies spelled as characters
FrequencyText ==
  [
    minutely   |-> <<"m","i","n","u","t","e","l","y">>,
    hourly     |-> <<"h","o","u","r","l","y">>,
    daily      |-> <<"d","a","i","l","y">>,
    weekly     |-> <<"w","e","e","k","l","y">>,
    monthly    |-> <<"m","o","n","t","h","l","y">>,
    yearly     |-> <<"y","e","a","r","l","y">>,
    fortnightly |-> <<"f","o","r","t","n","i","g","h","t","l","y">>
  ]

\* lines 19-27
GetOrdinalSuffixNoTeens(n) ==
  CASE n % 10 = 1 -> Template.st
    [] n % 10 = 2 -> Template.nd
    [] n % 10 = 3 -> Template.rd
    [] OTHER -> Template.th

\* lines 19-27
GetOrdinalSuffix(n) ==
  IF n > 3 /\ n < 21 THEN Template.th
  ELSE CASE n % 10 = 1 -> Template.st
         [] n % 10 = 2 -> Template.nd
         [] n % 10 = 3 -> Template.rd
         [] OTHER -> Template.th

\* JavaScript truthiness of an optional string
Truthy(o) == Defined(o) /\ o[1] # <<>>

\* JavaScript truthiness of an optional number
TruthyNumber(o) == Defined(o) /\ o[1] # 0

\* line 34: /^\d{1,2}:\d{2}$/.test(time)
TimeShape(time) ==
  /\ Len(time) \in {4, 5}
  /\ time[Len(time) - 2] = ":"
  /\ \A i \in 1..Len(time) : i # Len(time) - 2 => IsDigit(time[i])

\* the clock of an ISO time hh:mm or hh:mm:ss, Undefined when out of range
IsoClock(hh, mm, ss) ==
  IF hh <= 23 /\ mm <= 59 /\ ss <= 59 THEN Some([hours |-> hh, minutes |-> mm])
  ELSE IF hh = 24 /\ mm = 0 /\ ss = 0 THEN Some([hours |-> 0, minutes |-> 0])
  ELSE Undefined

\* line 39: new Date(`2000-01-01T${time}`) as local wall-clock time,
\* Undefined for an Invalid Date.  A one-digit hour is not the ISO format:
\* whether the engine's fallback parser accepts it is the engine's choice
\* (lenient).
NewDate(time, lenient) ==
  IF Len(time) = 5 /\ TimeShape(time)
    THEN IsoClock(ParseInt(SubSeq(time, 1, 2)), ParseInt(SubSeq(time, 4, 5)), 0)
  ELSE IF Len(time) = 4 /\ TimeShape(time)
    THEN IF lenient
           THEN IsoClock(ParseInt(SubSeq(time, 1, 1)), ParseInt(SubSeq(time, 3, 4)), 0)
           ELSE Undefined
  ELSE IF Len(time) = 8 /\ TimeShape(SubSeq(time, 1, 5)) /\ time[6] = ":"
          /\ IsDigit(time[7]) /\ IsDigit(time[8])
    THEN IsoClock(ParseInt(SubSeq(time, 1, 2)), ParseInt(SubSeq(time, 4, 5)),
                  ParseInt(SubSeq(time, 7, 8)))
  ELSE Undefined

\* format(date, 'H:mm a'): the hour of the 24-hour clock
DateFnsFormat24(date) ==
  IF ~Defined(date) THEN [threw |-> TRUE, text |-> <<>>]
  ELSE [threw |-> FALSE,
        text |-> NumToString(date[1].hours) \o <<":">>
                   \o PadStart2(NumToString(date[1].minutes))
                   \o (IF date[1].hours >= 12 THEN Template.pm ELSE Template.am)]

\* line 39: format(date, 'h:mm a') of date-fns, which throws a RangeError on
\* an Invalid Date
DateFnsFormat(date) ==
  IF ~Defined(date) THEN [threw |-> TRUE, text |-> <<>>]
  ELSE [threw |-> FALSE,
        text |-> NumToString(IF date[1].hours % 12 = 0 THEN 12
                             ELSE date[1].hours % 12)
                   \o <<":">> \o PadStart2(NumToString(date[1].minutes))
                   \o (IF date[1].hours >= 12 THEN Template.pm ELSE Template.am)]

\* lines 35, 42
Fallback == [threw |-> FALSE, text |-> Template.fallback]

\* lines 38-43: the try and its catch
TryFormat(f) == IF f.threw THEN Fallback ELSE f

\* formatTimeDisplay without the catch of lines 40-43
FormatTimeDisplayNoCatch(time, lenient) ==
  IF ~Truthy(time) \/ ~TimeShape(time[1]) THEN Fallback
  ELSE DateFnsFormat(NewDate(time[1], lenient))

\* formatTimeDisplay without the shape test of line 34
FormatTimeDisplayNoShape(time, lenient) ==
  IF ~Truthy(time) THEN Fallback
  ELSE TryFormat(DateFnsFormat(NewDate(time[1], lenient)))

\* lines 32-44
FormatTimeDisplay(time, lenient) ==
  IF ~Truthy(time) \/ ~TimeShape(time[1]) THEN Fallback
  ELSE TryFormat(DateFnsFormat(NewDate(time[1], lenient)))

\* lines 50-58
dayPatterns ==
  << <<B, Lit(W.sun), Opt(<<Lit(W.day)>>), B>>,
     <<B, Lit(W.mon), Opt(<<Lit(W.day)>>), B>>,
     <<B, Lit(W.tue), Opt(<<Lit(W.sday)>>), B>>,
     <<B, Lit(W.wed), Opt(<<Lit(W.nesday)>>), B>>,
     <<B, Lit(W.thu), Opt(<<Lit(W.rsday)>>), B>>,
     <<B, Lit(W.fri), Opt(<<Lit(W.day)>>), B>>,
     <<B, Lit(W.sat), Opt(<<Lit(W.urday)>>), B>> >>

\* lines 60-65: the day of the first pattern of the table that matches
RECURSIVE FirstDayPattern(_, _)
FirstDayPattern(originalText, n) ==
  IF n > Len(dayPatterns) THEN Undefined
  ELSE IF RegexMatch(originalText, dayPatterns[n]).ok THEN Some(n - 1)
  ELSE FirstDayPattern(originalText, n + 1)

\* lines 49-66
ExtractDayOfWeek(originalText) == FirstDayPattern(originalText, 1)

\* the pattern of line 72 without its closing \b
biweeklyPatternOpen ==
  <<B, Lit(W.every), Spaces1,
    Alt(<< <<Lit(W.other)>>, <<Lit(W.nd2)>>, <<Lit(W.second)>> >>)>>

\* line 72
biweeklyPattern == biweeklyPatternOpen \o <<B>>

\* isBiweekly with the pattern left open at its end
IsBiweeklyOpen(originalText) == RegexMatch(originalText, biweeklyPatternOpen).ok

\* lines 71-73
IsBiweekly(originalText) == RegexMatch(originalText, biweeklyPattern).ok

\* lines 107-108
WeeklyPrefix(originalText) ==
  IF Truthy(originalText) /\ IsBiweekly(originalText[1])
    THEN Template.biweekly ELSE Template.weekly

\* the day of week with a dayOfWeek of 0 taken for an absent one
WeeklyDayFalsy(dayOfWeek, originalText) ==
  IF ~TruthyNumber(dayOfWeek) /\ Truthy(originalText)
    THEN ExtractDayOfWeek(originalText[1])
    ELSE dayOfWeek

\* lines 111-115
WeeklyDay(dayOfWeek, originalText) ==
  IF ~Defined(dayOfWeek) /\ Truthy(originalText)
     /\ Defined(ExtractDayOfWeek(originalText[1]))
    THEN ExtractDayOfWeek(originalText[1])
    ELSE dayOfWeek

\* an element of a table by a JavaScript index: "undefined" past its end
ElementText(table, index) ==
  IF index + 1 \in DOMAIN table THEN table[index + 1] ELSE Template.undefined

\* lines 117-120
WeeklyText(prefix, day, timeDisplay) ==
  IF Defined(day)
    THEN prefix \o Template.on \o ElementText(DAYS_OF_WEEK, day[1])
           \o Template.at \o timeDisplay
    ELSE prefix \o Template.at \o timeDisplay

\* interval || 1
IntervalOr1(interval) == IF TruthyNumber(interval) THEN interval[1] ELSE 1

\* line 95
MinutelyText(interval, timeDisplay) ==
  Template.every \o NumToString(IntervalOr1(interval)) \o Template.minute
    \o (IF IntervalOr1(interval) > 1 THEN Template.plural ELSE <<>>)
    \o Template.starting \o timeDisplay

\* the hourly text with the interval as given, no default for 0
HourlyTextAsGiven(interval, timeDisplay) ==
  Template.every
    \o (IF ~Defined(interval) \/ interval[1] = 1 THEN Template.hour
        ELSE NumToString(interval[1]) \o Template.hours)
    \o Template.starting \o timeDisplay

\* lines 97-100
HourlyText(interval, timeDisplay) ==
  Template.every
    \o (IF IntervalOr1(interval) = 1 THEN Template.hour
        ELSE NumToString(IntervalOr1(interval)) \o Template.hours)
    \o Template.starting \o timeDisplay

\* lines 123-128
MonthlyText(dayOfMonth, timeDisplay) ==
  IF TruthyNumber(dayOfMonth)
    THEN Template.monthlyOn \o NumToString(dayOfMonth[1])
           \o GetOrdinalSuffix(dayOfMonth[1]) \o Template.at \o timeDisplay
    ELSE Template.monthly \o Template.at \o timeDisplay

\* lines 130-135
YearlyText(monthOfYear, dayOfMonth, timeDisplay) ==
  IF TruthyNumber(monthOfYear) /\ TruthyNumber(dayOfMonth)
    THEN Template.yearlyOn \o ElementText(MONTHS, monthOfYear[1] - 1)
           \o Template.space \o NumToString(dayOfMonth[1])
           \o GetOrdinalSuffix(dayOfMonth[1]) \o Template.at \o timeDisplay
    ELSE Template.yearly \o Template.at \o timeDisplay

\* lines 137-143
DefaultText(frequency, originalText, timeDisplay) ==
  IF Truthy(originalText)
    THEN Capitalize(originalText[1]) \o Template.at \o timeDisplay
    ELSE FrequencyText[frequency] \o Template.at \o timeDisplay

\* lines 93-144: the switch, with the time already formatted
FrequencyBranch(r, timeDisplay) ==
  CASE r.frequency = "minutely" -> MinutelyText(r.interval, timeDisplay)
    [] r.frequency = "hourly" -> HourlyText(r.interval, timeDisplay)
    [] r.frequency = "daily" -> Template.daily \o timeDisplay
    [] r.frequency = "weekly" ->
         WeeklyText(WeeklyPrefix(r.originalText),
                    WeeklyDay(r.dayOfWeek, r.originalText), timeDisplay)
    [] r.frequency = "monthly" -> MonthlyText(r.dayOfMonth, timeDisplay)
    [] r.frequency = "yearly" ->
         YearlyText(r.monthOfYear, r.dayOfMonth, timeDisplay)
    [] OTHER -> DefaultText(r.frequency, r.originalText, timeDisplay)

\* lines 91-144: an exception of formatTimeDisplay leaves the function
Rendering(r, timeDisplay) ==
  IF timeDisplay.threw THEN [threw |-> TRUE, text |-> <<>>]
  ELSE [threw |-> FALSE, text |-> FrequencyBranch(r, timeDisplay.text)]

\* lines 86-145
FormatRecurrence(r, lenient) == Rendering(r, FormatTimeDisplay(r.time, lenient))

\* the descriptor handleSubmit builds (TaskModal.tsx, lines 173-177) as a
\* RecurrenceSettings object: the fields it does not set are absent
AsSettings(d) ==
  [frequency |-> d.frequency,
   time |-> Some(d.time),
   interval |-> Undefined,
   dayOfMonth |-> Undefined,
   dayOfWeek |-> Undefined,
   monthOfYear |-> Undefined,
   originalText |-> Some(d.originalText)]

(***************************************************************************)
(* The state of the TaskModal component and of the store it uses.          *)
(***************************************************************************)
VARIABLES
  title,               \* useState('') of the title input
  isOpen,              \* the isOpen prop
  isProcessing,        \* useState(false)
  defaultColumn,       \* the defaultColumn prop, Undefined when not given
  items,               \* the store's items
  currentListId,
  currentView,
  calls,               \* the handleSubmit invocations since the modal opened
  typed,               \* how many times the title input has changed
  \* the quick-add edge function and the database behind it
  qpc,                 \* where the handler stands
  request,             \* the request being served
  qa,                  \* the locals of the handler
  response,            \* the response, once sent
  dbLists,             \* table lists (the rows of the user)
  dbItems,             \* table items
  aiCalls,             \* completion calls made
  \* the rendering of an item's recurrence
  recurrenceSettings,  \* the argument of formatRecurrence
  lenientDate,         \* whether the engine's Date accepts a one-digit hour
  rendered,            \* what formatRecurrence gave, once called
  \* a call of processTextWithAI
  ai,                  \* its arguments, the service's answer and its result
  \* the Notes panel
  notes                \* its state, the selected item's metadata and notes

taskVars ==
  <<title, isOpen, isProcessing, defaultColumn, items, currentListId,
    currentView, calls, typed>>

qaVars == <<qpc, request, qa, response, dbLists, dbItems, aiCalls>>

fmtVars == <<recurrenceSettings, lenientDate, rendered>>

vars == <<taskVars, qaVars, fmtVars, ai, notes>>

\* the store's lists
Lists == <<[id |-> "l1", name |-> "Personal"], [id |-> "l2", name |-> "Work"]>>

\* processTextWithAI is not running
NoAI ==
  [pc |-> "idle", text |-> <<>>, lists |-> <<>>, completion |-> Undefined,
   processed |-> Undefined]

\* the Notes panel is closed
NoNotes ==
  [open |-> FALSE,
   metadata |-> <<>>,
   noteTexts |-> <<>>,
   noteIds |-> <<>>,
   added |-> 0,
   noteInput |-> <<>>,
   showOnHoldTag |-> FALSE,
   showOffHoldTag |-> FALSE,
   holdReason |-> <<>>,
   isProcessing |-> FALSE,
   pc |-> "idle",
   newMetadata |-> <<>>,
   processedNote |-> <<>>,
   editingNoteId |-> 0,
   editingContent |-> <<>>,
   isEditProcessing |-> FALSE,
   editPc |-> "idle",
   noteId |-> 0,
   processedContent |-> <<>>,
   edits |-> 0,
   deleting |-> {},
   deletes |-> 0,
   last |-> [mode |-> "none", ok |-> FALSE, before |-> <<>>, reason |-> <<>>]]

TaskInit ==
  /\ title = <<>>
  /\ isOpen = TRUE
  /\ isProcessing = FALSE
  /\ defaultColumn = Undefined
  /\ typed = 0
  /\ currentListId = "all"
  /\ currentView = "tasks"
  /\ qpc = "idle"
  /\ request = NoRequest
  /\ qa = NoQuickAdd
  /\ response = Undefined
  /\ dbItems = <<>>
  /\ aiCalls = 0
  /\ calls = <<>>
  /\ ai = NoAI
  /\ notes = NoNotes

\* no recurrence is being rendered
NoRendering ==
  /\ recurrenceSettings = Undefined
  /\ lenientDate = FALSE
  /\ rendered = Undefined

Init ==
  /\ TaskInit
  /\ items = <<>>
  /\ dbLists = Lists
  /\ NoRendering

(***************************************************************************)
(* The modal (TaskModal.tsx).  The title input is never disabled (lines    *)
(* 256-264) and the document's keydown listener stays registered while a   *)
(* handleSubmit is awaiting (lines 39-56), so handleSubmit is re-entrant:  *)
(* its invocations since the modal opened are kept in calls, one record    *)
(* each, [pc, typed, locals, listId, view, item], with pc awaitAI,         *)
(* awaitAddItem, added or failed, typed, listId and view the title,        *)
(* currentListId and currentView of the closure that ran, locals its       *)
(* extraction and item its addItem argument.  The actions take the bounds  *)
(* of the exploration as arguments: the titles typed, how many times the   *)
(* input changes and how many invocations are followed.                    *)
(***************************************************************************)

\* the bounds of Spec: one title is typed and one invocation is followed
OneTitle == 1

OneCall == 1

\* the bounds of SpecModal
MaxTyped == 3

MaxCalls == 2

\* onChange of the title input (line 259)
SetTitle(typable, maxTyped) ==
  /\ isOpen
  /\ typed < maxTyped
  /\ \E t \in typable \ {title} : title' = t
  /\ typed' = typed + 1
  /\ UNCHANGED <<isOpen, isProcessing, defaultColumn, items, currentListId,
                 currentView, calls>>
  /\ UNCHANGED <<qaVars, fmtVars, ai, notes>>

\* handleSubmit from its start to the await of processTextWithAI (lines 60-156)
HandleSubmit(maxCalls) ==
  /\ Len(calls) < maxCalls
  /\ Trim(title) # <<>>
  /\ ~DuplicateExists(items, title)
  /\ isProcessing' = TRUE
  /\ calls' = Append(calls, [pc |-> "awaitAI", typed |-> title,
                             locals |-> Extract(title),
                             listId |-> currentListId, view |-> currentView,
                             item |-> Undefined])
  /\ UNCHANGED <<title, isOpen, defaultColumn, items, currentListId,
                 currentView, typed>>
  /\ UNCHANGED <<qaVars, fmtVars, ai, notes>>

\* a click on Create, disabled while isProcessing (lines 365-381)
ClickCreate(maxCalls) ==
  /\ isOpen /\ ~isProcessing
  /\ HandleSubmit(maxCalls)

\* Enter on the document, outside a textarea (lines 45-50)
PressEnter(maxCalls) ==
  /\ isOpen
  /\ HandleSubmit(maxCalls)

\* processTextWithAI settles for invocation i, which runs on to the addItem
\* call (lines 157-201).  ProcessedText has no suggestedPriority, so line 159
\* yields 'low'.
AIReturn(i) ==
  /\ calls[i].pc = "awaitAI"
  /\ \E completion \in Completions(calls[i].locals.extractedTitle) :
       calls' = [calls EXCEPT
                   ![i].pc = "awaitAddItem",
                   ![i].item = Some(ItemAfterAI(calls[i].locals, defaultColumn,
                      calls[i].listId, Lists,
                      ProcessTextWithAI(calls[i].locals.extractedTitle, Lists,
                                        completion)))]
  /\ UNCHANGED <<title, isOpen, isProcessing, defaultColumn, items,
                 currentListId, currentView, typed>>
  /\ UNCHANGED <<qaVars, fmtVars, ai, notes>>

\* addItem resolves for invocation i (lines 203-235, 32-36): the store holds
\* the item, the list and the view follow it when they differ from the
\* closure's currentListId and currentView, the modal closes and its title
\* is reset
AddItemResolve(i) ==
  /\ calls[i].pc = "awaitAddItem"
  /\ items' = Append(items, calls[i].item[1] @@ [deletedAt |-> Undefined])
  /\ currentListId' = IF calls[i].listId # calls[i].item[1].listId
                        THEN calls[i].item[1].listId
                        ELSE currentListId
  /\ currentView' = IF TargetView(calls[i].item[1]) # calls[i].view
                      THEN TargetView(calls[i].item[1])
                      ELSE currentView
  /\ isProcessing' = FALSE
  /\ isOpen' = FALSE
  /\ title' = <<>>
  /\ calls' = [calls EXCEPT ![i].pc = "added"]
  /\ UNCHANGED <<defaultColumn, typed>>
  /\ UNCHANGED <<qaVars, fmtVars, ai, notes>>

\* addItem rejects for invocation i (lines 228-232): the modal stays as it is
AddItemReject(i) ==
  /\ calls[i].pc = "awaitAddItem"
  /\ isProcessing' = FALSE
  /\ calls' = [calls EXCEPT ![i].pc = "failed"]
  /\ UNCHANGED <<title, isOpen, defaultColumn, items, currentListId,
                 currentView, typed>>
  /\ UNCHANGED <<qaVars, fmtVars, ai, notes>>

\* Escape or a click on the backdrop (lines 43-44, 239), and Cancel while
\* it is enabled (lines 354-364): the modal closes and its title is reset
\* (lines 32-36), whatever handleSubmit is awaiting
OnClose ==
  /\ isOpen
  /\ isOpen' = FALSE
  /\ title' = <<>>
  /\ UNCHANGED <<isProcessing, defaultColumn, items, currentListId,
                 currentView, calls, typed>>
  /\ UNCHANGED <<qaVars, fmtVars, ai, notes>>

\* the modal over an empty store, one title of Titles typed and submitted
Next ==
  \/ SetTitle(Titles, OneTitle)
  \/ ClickCreate(OneCall)
  \/ PressEnter(OneCall)
  \/ \E i \in DOMAIN calls : AIReturn(i)
  \/ \E i \in DOMAIN calls : AddItemResolve(i)
  \/ \E i \in DOMAIN calls : AddItemReject(i)
  \/ OnClose

Spec == Init /\ [][Next]_vars

\* an item of the store
StoredItem(text, status, deletedAt) ==
  [type |-> "task", title |-> text, priority |-> "low", status |-> status,
   listId |-> "l1", reminderDate |-> Undefined, recurrence |-> Undefined,
   deletedAt |-> deletedAt]

\* the items the store holds when the modal opens: none, an active
\* "Call mom", or a completed and a trashed "Call mom"
StoreItems ==
  LET callMom == <<"C","a","l","l"," ","m","o","m">> IN
    { <<>>,
      <<StoredItem(callMom, "start", Undefined)>>,
      <<StoredItem(callMom, "complete", Undefined),
        StoredItem(callMom, "today", Some("2025-01-01"))>> }

\* the titles typed into the input
ModalTitles ==
  {
     <<"c","a","l","l"," ","m","o","m">>,
     <<" ","C","A","L","L"," ","M","O","M">>,
     <<"c","a","l","l"," ","m","o","m"," ","d","a","i","l","y">>,
     <<"c","a","l","l"," ","m","o","m"," ","t","o","m","o","r","r","o","w">>,
     <<"b","u","y"," ","m","i","l","k">>
  }

ModalInit ==
  /\ TaskInit
  /\ items \in StoreItems
  /\ dbLists = Lists
  /\ NoRendering

\* the modal over a store with items, titles retyped while invocations await
ModalNext ==
  \/ SetTitle(ModalTitles, MaxTyped)
  \/ ClickCreate(MaxCalls)
  \/ PressEnter(MaxCalls)
  \/ \E i \in DOMAIN calls : AIReturn(i)
  \/ \E i \in DOMAIN calls : AddItemResolve(i)
  \/ \E i \in DOMAIN calls : AddItemReject(i)
  \/ OnClose

SpecModal == ModalInit /\ [][ModalNext]_vars

(***************************************************************************)
(* The quick-add handler as a process: one request, followed from await    *)
(* to await.                                                               *)
(***************************************************************************)
QAInit ==
  /\ TaskInit
  /\ items = <<>>
  /\ dbLists \in {<<>>, Lists}
  /\ NoRendering

\* the response leaves: its status, its body ("ok" or a JSON object), the
\* success field of the object and the message of the error caught
Answer(status, body, success, error) ==
  /\ response' = Some([status |-> status, body |-> body, success |-> success,
                       error |-> error])
  /\ qpc' = "done"

\* line 14: the answer to a preflight request
Preflight == Answer(200, "ok", Undefined, "")

\* lines 231-242: the catch, for an error with the given message
Throw(message) == Answer(400, "json", Some(FALSE), message)

\* lines 220-229
Success == Answer(200, "json", Some(TRUE), "")

\* the handler without the check of lines 19-22
QARequestNoHeaderCheck ==
  /\ qpc = "idle"
  /\ \E r \in Requests :
       /\ request' = r
       /\ IF r.method = "OPTIONS" THEN Preflight
          ELSE /\ qpc' = "getUser"
               /\ UNCHANGED response
  /\ UNCHANGED <<qa, dbLists, dbItems, aiCalls>>
  /\ UNCHANGED <<taskVars, fmtVars, ai, notes>>

\* lines 11-36: the request arrives; the handler runs to the getUser call
QARequest ==
  /\ qpc = "idle"
  /\ \E r \in Requests :
       /\ request' = r
       /\ IF r.method = "OPTIONS" THEN Preflight
          ELSE IF ~r.authHeader THEN Throw("Missing authorization header")
          ELSE /\ qpc' = "getUser"
               /\ UNCHANGED response
  /\ UNCHANGED <<qa, dbLists, dbItems, aiCalls>>
  /\ UNCHANGED <<taskVars, fmtVars, ai, notes>>

\* lines 36-43: getUser settles; with a user the handler starts to read the
\* body
QAUser ==
  /\ qpc = "getUser"
  /\ \E userOk \in BOOLEAN :
       IF ~userOk
         THEN /\ Throw("Invalid authorization token")
              /\ UNCHANGED qa
         ELSE /\ qa' = [qa EXCEPT !.user = Some("user")]
              /\ qpc' = "readBody"
              /\ UNCHANGED response
  /\ UNCHANGED <<request, dbLists, dbItems, aiCalls>>
  /\ UNCHANGED <<taskVars, fmtVars, ai, notes>>

\* lines 43-64: req.json() settles: it rejects with the parser's message for
\* a body that is no JSON; else the text is checked, then the OpenAI key of
\* the environment, and the handler runs to the select of the user's lists
QABody ==
  /\ qpc = "readBody"
  /\ \E openaiKey \in BOOLEAN :
       IF request.body # "json"
         THEN Throw("Unexpected end of JSON input")
       ELSE IF ~Defined(request.text) \/ request.text[1] = <<>>
         THEN Throw("Missing or invalid \"text\" field")
       ELSE IF ~openaiKey
         THEN Throw("OpenAI API key not configured")
       ELSE /\ qpc' = "selectLists"
            /\ UNCHANGED response
  /\ UNCHANGED <<request, qa, dbLists, dbItems, aiCalls>>
  /\ UNCHANGED <<taskVars, fmtVars, ai, notes>>

\* lines 60-102: the select settles (with the lists, or with an error and
\* null data); the handler calls the completion service
QALists ==
  /\ qpc = "selectLists"
  /\ \E listsError \in BOOLEAN :
       qa' = [qa EXCEPT !.lists = IF listsError THEN Undefined ELSE Some(dbLists)]
  /\ aiCalls' = aiCalls + 1
  /\ qpc' = "completion"
  /\ UNCHANGED <<request, response, dbLists, dbItems>>
  /\ UNCHANGED <<taskVars, fmtVars, ai, notes>>

\* lines 104-204 once the answer was parsed into fields f: strip, settle
\* the list, build the row
AfterCompletion(f) ==
  IF ListIdUnknown(f.listId, qa.lists)
     /\ ~(Defined(qa.lists) /\ Len(qa.lists[1]) > 0)
    THEN /\ qa' = [qa EXCEPT
                     !.correctedText =
                        StripRecurrenceText(f.correctedText, request.recurrence),
                     !.priority = f.priority,
                     !.parsedListId = f.listId]
         /\ qpc' = "insertList"
         /\ UNCHANGED response
    ELSE IF DateThrows(request.recurrence, request.reminder_date)
      THEN /\ Throw("Invalid time value")
           /\ UNCHANGED qa
      ELSE /\ qa' = [qa EXCEPT
                       !.correctedText =
                          StripRecurrenceText(f.correctedText, request.recurrence),
                       !.priority = f.priority,
                       !.parsedListId = f.listId,
                       !.listId = IF ListIdUnknown(f.listId, qa.lists)
                                    THEN qa.lists[1][1].id ELSE f.listId,
                       !.itemData = Some(ItemData(
                          StripRecurrenceText(f.correctedText, request.recurrence),
                          f.priority,
                          IF ListIdUnknown(f.listId, qa.lists)
                            THEN qa.lists[1][1].id ELSE f.listId,
                          qa.user[1], request.recurrence, request.reminder_date))]
           /\ qpc' = "insertItem"
           /\ UNCHANGED response

\* lines 72-135: the completion settles: it throws, or its content is no
\* JSON, or it parses
QACompletion ==
  /\ qpc = "completion"
  /\ \/ /\ Throw("completion")
        /\ UNCHANGED qa
     \/ \E parsed \in QAAnswers(request.text[1]) :
          AfterCompletion(ParsedFields(parsed, request.text[1]))
  /\ UNCHANGED <<request, dbLists, dbItems, aiCalls>>
  /\ UNCHANGED <<taskVars, fmtVars, ai, notes>>

\* lines 126-204: the insert of the default list settles
QAListInserted ==
  /\ qpc = "insertList"
  /\ \/ /\ Throw("createError")
        /\ UNCHANGED <<qa, dbLists>>
     \/ /\ dbLists' = Append(dbLists, [id |-> "new", name |-> "Personal"])
        /\ IF DateThrows(request.recurrence, request.reminder_date)
             THEN /\ Throw("Invalid time value")
                  /\ UNCHANGED qa
             ELSE /\ qa' = [qa EXCEPT
                              !.listId = "new",
                              !.itemData = Some(ItemData(
                                 qa.correctedText, qa.priority, "new", qa.user[1],
                                 request.recurrence, request.reminder_date))]
                  /\ qpc' = "insertItem"
                  /\ UNCHANGED response
  /\ UNCHANGED <<request, dbItems, aiCalls>>
  /\ UNCHANGED <<taskVars, fmtVars, ai, notes>>

\* lines 206-229: the insert of the item settles
QAItemInserted ==
  /\ qpc = "insertItem"
  /\ \/ /\ Throw("Failed to create item")
        /\ UNCHANGED dbItems
     \/ /\ dbItems' = Append(dbItems, qa.itemData[1])
        /\ Success
  /\ UNCHANGED <<request, qa, dbLists, aiCalls>>
  /\ UNCHANGED <<taskVars, fmtVars, ai, notes>>

QANext ==
  \/ QARequest
  \/ QAUser
  \/ QABody
  \/ QALists
  \/ QACompletion
  \/ QAListInserted
  \/ QAItemInserted

SpecQuickAdd == QAInit /\ [][QANext]_vars

(***************************************************************************)
(* formatRecurrence as a process: a descriptor is handed to the function   *)
(* (Notes.tsx, line 204, for the item selected) and rendered.              *)
(***************************************************************************)
MaxInterval == 3

MaxDayOfMonth == 32

MaxDayOfWeek == 7

MaxMonthOfYear == 13

\* the minutes of the clock times rendered
ClockMinutes == 0..59

\* the originalText values of the descriptors
OriginalText ==
  [
    everyOtherTuesday  |-> <<"e","v","e","r","y"," ","o","t","h","e","r"," ","t","u","e","s","d","a","y">>,
    every2ndFri        |-> <<"E","v","e","r","y"," ","2","n","d"," ","F","r","i">>,
    everySecondSun     |-> <<"e","v","e","r","y"," "," ","s","e","c","o","n","d"," ","s","u","n">>,
    everyOtherwise     |-> <<"e","v","e","r","y"," ","o","t","h","e","r","w","i","s","e"," ","t","h","u">>,
    everyother         |-> <<"e","v","e","r","y","o","t","h","e","r"," ","w","e","d">>,
    weekly             |-> <<"w","e","e","k","l","y">>,
    everyMonday        |-> <<"e","v","e","r","y"," ","M","o","n","d","a","y">>,
    satAndMon          |-> <<"e","v","e","r","y"," ","s","a","t"," ","a","n","d"," ","m","o","n">>,
    everyMonth         |-> <<"e","v","e","r","y"," ","m","o","n","t","h">>,
    sundays            |-> <<"o","n"," ","s","u","n","d","a","y","s">>
  ]

OriginalTexts ==
  {Undefined, Some(<<>>)} \cup {Some(OriginalText[k]) : k \in DOMAIN OriginalText}

\* time values that are no wall-clock HH:MM, and three that are
TimeText ==
  [
    empty        |-> <<>>,
    nine         |-> <<"0","9",":","0","0">>,
    two          |-> <<"1","4",":","0","0">>,
    oneDigit     |-> <<"9",":","0","5">>,
    late         |-> <<"2","5",":","0","0">>,
    midnight24   |-> <<"2","4",":","0","0">>,
    seconds      |-> <<"1","8",":","0","0",":","0","0">>,
    words        |-> <<"9","a","m">>,
    minutes60    |-> <<"1","2",":","6","0">>
  ]

TimeTexts == {Undefined} \cup {Some(TimeText[k]) : k \in DOMAIN TimeText}

\* every HH:MM with HH in 00..23 and MM in ClockMinutes
ClockTimes ==
  {Some(PadStart2(NumToString(h)) \o <<":">> \o PadStart2(NumToString(m))) :
     h \in 0..23, m \in ClockMinutes}

Optional(S) == {Undefined} \cup {Some(v) : v \in S}

\* a descriptor with the fields given and no other
Settings(frequency, time, interval, dayOfMonth, dayOfWeek, monthOfYear, originalText) ==
  [frequency |-> frequency, time |-> time, interval |-> interval,
   dayOfMonth |-> dayOfMonth, dayOfWeek |-> dayOfWeek,
   monthOfYear |-> monthOfYear, originalText |-> originalText]

\* the descriptors rendered: for each frequency, every value, legal or not,
\* of the fields its branch reads
Descriptors ==
  {Settings(f, t, i, Undefined, Undefined, Undefined, Undefined) :
     f \in {"minutely", "hourly"}, t \in TimeTexts, i \in Optional(0..MaxInterval)}
  \cup
  {Settings("daily", t, Undefined, Undefined, Undefined, Undefined, Undefined) :
     t \in TimeTexts \cup ClockTimes}
  \cup
  {Settings("weekly", t, Undefined, Undefined, d, Undefined, o) :
     t \in TimeTexts, d \in Optional(0..MaxDayOfWeek), o \in OriginalTexts}
  \cup
  {Settings("monthly", t, Undefined, d, Undefined, Undefined, Undefined) :
     t \in TimeTexts, d \in Optional(0..MaxDayOfMonth)}
  \cup
  {Settings("yearly", t, Undefined, d, Undefined, m, Undefined) :
     t \in {Undefined, Some(TimeText.two)}, d \in Optional(0..MaxDayOfMonth),
     m \in Optional(0..MaxMonthOfYear)}
  \cup
  {Settings("fortnightly", t, Undefined, Undefined, Undefined, Undefined, o) :
     t \in TimeTexts, o \in OriginalTexts}

FormatInit ==
  /\ TaskInit
  /\ items = <<>>
  /\ dbLists = Lists
  /\ recurrenceSettings \in {Some(r) : r \in Descriptors}
  /\ lenientDate \in BOOLEAN
  /\ rendered = Undefined

\* Notes.tsx, line 204: formatRecurrence(selectedItem.recurrence)
Render ==
  /\ Defined(recurrenceSettings)
  /\ rendered = Undefined
  /\ rendered' = Some(FormatRecurrence(recurrenceSettings[1], lenientDate))
  /\ UNCHANGED <<recurrenceSettings, lenientDate>>
  /\ UNCHANGED <<taskVars, qaVars, ai, notes>>

FormatNext == Render

SpecFormat == FormatInit /\ [][FormatNext]_vars

(***************************************************************************)
(* processTextWithAI as a process (lib ai, lines 168-260): it is called    *)
(* with a text and lists, awaits the completion service and returns.       *)
(***************************************************************************)
\* the texts handed to processTextWithAI
AITexts ==
  {
     <<"c","a","l","l"," ","m","o","m">>,
     <<" ","b","u","y"," ","m","i","l","k"," ">>,
     <<"w","w","w",".","a",".","c","o"," ","n","o","w">>,
     <<"p","a","y"," ","r","e","n","t">>,
     <<"e","m","a","i","l"," ","S","A","R","A","H">>
  }

\* the lists handed to it: none (Notes.tsx, line 99) or the store's
AILists == {<<>>, Lists}

\* what a completion call may do: throw or answer, with a corrected text
\* (line 171) or with a list id (line 209)
Corrections(text) == [throws : BOOLEAN, content : {text, <<>>, CorrectedAnswer}]

Matches == [throws : BOOLEAN, matchedId : {"l1", "unknown", ""}]

\* the two answers as one
Completion(throws, content, matchedId) ==
  [throws |-> throws, content |-> content, matchedId |-> matchedId]

\* lines 168-171: the call, up to the await of the correction
AICall ==
  /\ ai.pc = "idle"
  /\ \E text \in AITexts, lists \in AILists :
       ai' = [ai EXCEPT !.pc = "correction", !.text = text, !.lists = lists]
  /\ UNCHANGED <<taskVars, qaVars, fmtVars, notes>>

\* lines 171-209, 245-259: the correction call settles.  When it throws, or
\* no lists were given, the function returns; else it awaits the list match.
AICorrected ==
  /\ ai.pc = "correction"
  /\ \E c \in Corrections(ai.text) :
       IF c.throws \/ Len(ai.lists) = 0
         THEN ai' = [ai EXCEPT
                       !.pc = "returned",
                       !.completion = Some(Completion(c.throws, c.content, "")),
                       !.processed = Some(ProcessTextWithAI(ai.text, ai.lists,
                                       Completion(c.throws, c.content, "")))]
         ELSE ai' = [ai EXCEPT
                       !.pc = "match",
                       !.completion = Some(Completion(FALSE, c.content, ""))]
  /\ UNCHANGED <<taskVars, qaVars, fmtVars, notes>>

\* lines 209-259: the list match call settles and the function returns
AIMatched ==
  /\ ai.pc = "match"
  /\ \E m \in Matches :
       ai' = [ai EXCEPT
                !.pc = "returned",
                !.completion =
                   Some(Completion(m.throws, ai.completion[1].content, m.matchedId)),
                !.processed = Some(ProcessTextWithAI(ai.text, ai.lists,
                   Completion(m.throws, ai.completion[1].content, m.matchedId)))]
  /\ UNCHANGED <<taskVars, qaVars, fmtVars, notes>>

AINext ==
  \/ AICall
  \/ AICorrected
  \/ AIMatched

SpecAI == Init /\ [][AINext]_vars

(***************************************************************************)
(* The Notes panel (Notes.tsx, lines 14-20, 44-159, 229-312, 325-443) for  *)
(* the selected item.  The notes of the item are noteTexts, their ids      *)
(* noteIds (the k-th note added has id k).  notes.last tells the mode and  *)
(* outcome of the handleAddNote that settled last, with the metadata and   *)
(* the reason it started from.  handleUpdateNote stands at editPc with its *)
(* argument noteId and its local processedContent; deleting holds the ids  *)
(* whose deleteNote is awaited.  The store's addNote, updateNote and       *)
(* deleteNote append a note, replace the content of the note with the id   *)
(* and remove it; for an id that is gone the last two change nothing.      *)
(***************************************************************************)
\* the notes added, the handleUpdateNote and the handleDeleteNote that run
MaxNotes == 1

MaxEdits == 1

MaxDeletes == 1

\* what is typed into the note input
NoteTexts ==
  {
     <<"o","n"," ","h","o","l","d">>,
     <<" ","O","n"," ","H","o","l","d"," ">>,
     <<"o","f","f"," ","h","o","l","d">>,
     <<"O","F","F"," ","H","O","L","D">>,
     <<"o","n"," ","h","o","l","d","s">>,
     <<"b","u","y"," ","m","i","l","k">>,
     <<" "," ">>
  }

\* what is typed into the textarea of a note being edited
EditTexts ==
  {
     <<"b","u","y"," ","b","r","e","a","d"," ">>,
     <<"O","n"," ","h","o","l","d"," ","n","o","w">>,
     <<" ">>
  }

\* what is typed into the reason input
HoldReasons == {<<>>, <<" ">>, <<" ","s","o","o","n"," ">>}

\* the metadata of the selected item when the panel opens: none, another
\* key, another key and a hold
Metadatas ==
  { <<>>,
    [color |-> <<"r","e","d">>],
    [color |-> <<"r","e","d">>,
     onHold |-> Some([reason |-> <<"w","a","i","t">>])] }

\* an object with the given key alone, the spread left out
SpreadOnly(metadata, key, value) == [k \in {key} |-> value]

\* lines 58 and 75-78: { ...(selectedItem.metadata || {}), [key]: value }
Spread(metadata, key, value) ==
  [k \in DOMAIN metadata \cup {key} |-> IF k = key THEN value ELSE metadata[k]]

\* lines 142-159: the effect that follows a change of the note input
DetectHold(n) ==
  LET lower == Trim(ToLowerCase(n.noteInput))
      onHold == lower = <<"o","n"," ","h","o","l","d">> /\ ~n.showOnHoldTag
      offHold == lower = <<"o","f","f"," ","h","o","l","d">> /\ ~n.showOffHoldTag
  IN [n EXCEPT
        !.showOnHoldTag = IF onHold THEN TRUE ELSE @,
        !.showOffHoldTag = IF offHold THEN TRUE ELSE @,
        !.noteInput = IF onHold \/ offHold THEN <<>> ELSE @]

\* the panel opens for an item (selectedItemId, line 44)
OpenNotes ==
  /\ ~notes.open
  /\ \E metadata \in Metadatas :
       notes' = [NoNotes EXCEPT !.open = TRUE, !.metadata = metadata]
  /\ UNCHANGED <<taskVars, qaVars, fmtVars, ai>>

\* onChange of the regular note input (lines 410-414, 433), and the effect
TypeNote ==
  /\ notes.open
  /\ ~notes.showOnHoldTag /\ ~notes.showOffHoldTag
  /\ ~notes.isProcessing
  /\ \E text \in NoteTexts \ {notes.noteInput} :
       notes' = DetectHold([notes EXCEPT !.noteInput = text])
  /\ UNCHANGED <<taskVars, qaVars, fmtVars, ai>>

\* Escape in the regular note input holding text (lines 419-424)
EscapeNote ==
  /\ notes.open
  /\ ~notes.showOnHoldTag /\ ~notes.showOffHoldTag
  /\ ~notes.isProcessing
  /\ Trim(notes.noteInput) # <<>>
  /\ notes' = DetectHold([notes EXCEPT !.noteInput = <<>>])
  /\ UNCHANGED <<taskVars, qaVars, fmtVars, ai>>

\* onChange of the reason input (lines 333-337, 358)
TypeReason ==
  /\ notes.showOnHoldTag
  /\ ~notes.isProcessing
  /\ \E reason \in HoldReasons \ {notes.holdReason} :
       notes' = [notes EXCEPT !.holdReason = reason]
  /\ UNCHANGED <<taskVars, qaVars, fmtVars, ai>>

\* Escape in the reason input (lines 342-347)
EscapeReason ==
  /\ notes.showOnHoldTag
  /\ ~notes.isProcessing
  /\ notes' = [notes EXCEPT !.showOnHoldTag = FALSE, !.holdReason = <<>>]
  /\ UNCHANGED <<taskVars, qaVars, fmtVars, ai>>

\* Backspace or Delete in the empty reason input (lines 348-354)
BackspaceReason ==
  /\ notes.showOnHoldTag
  /\ ~notes.isProcessing
  /\ notes.holdReason = <<>>
  /\ notes' = [notes EXCEPT !.showOnHoldTag = FALSE]
  /\ UNCHANGED <<taskVars, qaVars, fmtVars, ai>>

\* Escape, Backspace or Delete on the OFF HOLD container (lines 381-387)
ClearOffHold ==
  /\ notes.showOffHoldTag
  /\ notes' = [notes EXCEPT !.showOffHoldTag = FALSE]
  /\ UNCHANGED <<taskVars, qaVars, fmtVars, ai>>

\* handleAddNote from its start to its first await (lines 51-99), on Enter
\* or a click on Add
HandleAddNote ==
  /\ notes.open
  /\ ~notes.isProcessing
  /\ IF notes.showOffHoldTag
       THEN notes' = [notes EXCEPT
                        !.isProcessing = TRUE,
                        !.pc = "updateOff",
                        !.newMetadata = Spread(notes.metadata, "onHold", Undefined)]
     ELSE IF notes.showOnHoldTag
       THEN notes' = [notes EXCEPT
                        !.isProcessing = TRUE,
                        !.pc = "updateOn",
                        !.newMetadata =
                           Spread(notes.metadata, "onHold",
                                  Some(IF Trim(notes.holdReason) # <<>>
                                         THEN [reason |-> Trim(notes.holdReason)]
                                         ELSE <<>>))]
     ELSE /\ Trim(notes.noteInput) # <<>>
          /\ notes.added < MaxNotes
          /\ notes' = [notes EXCEPT
                         !.isProcessing = TRUE,
                         !.pc = "ai",
                         !.processedNote = Trim(notes.noteInput)]
  /\ UNCHANGED <<taskVars, qaVars, fmtVars, ai>>

\* updateItem resolves (lines 59-61, 65 and 79-82, 86)
UpdateResolve ==
  /\ notes.pc \in {"updateOff", "updateOn"}
  /\ notes' = [notes EXCEPT
                 !.metadata = notes.newMetadata,
                 !.noteInput = <<>>,
                 !.showOffHoldTag = IF notes.pc = "updateOff" THEN FALSE ELSE @,
                 !.showOnHoldTag = IF notes.pc = "updateOn" THEN FALSE ELSE @,
                 !.holdReason = IF notes.pc = "updateOn" THEN <<>> ELSE @,
                 !.isProcessing = FALSE,
                 !.pc = "idle",
                 !.last = [mode |-> IF notes.pc = "updateOn" THEN "on" ELSE "off",
                           ok |-> TRUE,
                           before |-> notes.metadata,
                           reason |-> notes.holdReason]]
  /\ UNCHANGED <<taskVars, qaVars, fmtVars, ai>>

\* updateItem rejects (lines 62-65 and 83-86)
UpdateReject ==
  /\ notes.pc \in {"updateOff", "updateOn"}
  /\ notes' = [notes EXCEPT
                 !.isProcessing = FALSE,
                 !.pc = "idle",
                 !.last = [mode |-> IF notes.pc = "updateOn" THEN "on" ELSE "off",
                           ok |-> FALSE,
                           before |-> notes.metadata,
                           reason |-> notes.holdReason]]
  /\ UNCHANGED <<taskVars, qaVars, fmtVars, ai>>

\* processTextWithAI settles for a regular note (lines 99-100)
NoteAIReturn ==
  /\ notes.pc = "ai"
  /\ \E c \in Corrections(notes.processedNote) :
       LET aiResult == ProcessTextWithAI(notes.processedNote, <<>>,
                                         Completion(c.throws, c.content, "")) IN
         notes' = [notes EXCEPT
                     !.pc = "addNote",
                     !.processedNote = IF aiResult.correctedText # <<>>
                                         THEN aiResult.correctedText ELSE @]
  /\ UNCHANGED <<taskVars, qaVars, fmtVars, ai>>

\* addNote resolves (lines 102-103, 107)
AddNoteResolve ==
  /\ notes.pc = "addNote"
  /\ notes' = DetectHold(
       [notes EXCEPT
          !.noteTexts = Append(@, notes.processedNote),
          !.noteIds = Append(@, notes.added + 1),
          !.added = @ + 1,
          !.noteInput = <<>>,
          !.isProcessing = FALSE,
          !.pc = "idle",
          !.last = [mode |-> "note", ok |-> TRUE, before |-> notes.metadata,
                    reason |-> <<>>]])
  /\ UNCHANGED <<taskVars, qaVars, fmtVars, ai>>

\* addNote rejects (lines 104-107)
AddNoteReject ==
  /\ notes.pc = "addNote"
  /\ notes' = [notes EXCEPT
                 !.isProcessing = FALSE,
                 !.pc = "idle",
                 !.last = [mode |-> "note", ok |-> FALSE, before |-> notes.metadata,
                           reason |-> <<>>]]
  /\ UNCHANGED <<taskVars, qaVars, fmtVars, ai>>

\* lines 117 and 231-235: the content of an ON HOLD or OFF HOLD note
HoldContent(content) ==
  LET lower == ToLowerCase(content)
      onHold == <<"o","n"," ","h","o","l","d">>
  IN \/ Len(lower) >= Len(onHold) /\ SubSeq(lower, 1, Len(onHold)) = onHold
     \/ lower = <<"o","f","f"," ","h","o","l","d">>

\* lines 229-236: the positions of the notes the panel lists
Listed == {k \in DOMAIN notes.noteTexts : ~HoldContent(notes.noteTexts[k])}

\* lines 238-242: the textarea of the note being edited is shown
Editing == \E k \in Listed : notes.noteIds[k] = notes.editingNoteId

\* the notes but the one with the id
WithoutNote(texts, ids, id, wanted) ==
  LET keep == {k \in DOMAIN ids : ids[k] # id}
      Pick[k \in 0..Len(ids)] ==
        IF k = 0 THEN <<>>
        ELSE IF k \in keep THEN Append(Pick[k - 1], wanted[k]) ELSE Pick[k - 1]
  IN Pick[Len(ids)]

\* a click on Edit of a listed note (lines 293-297)
ClickEdit ==
  /\ notes.open
  /\ \E k \in Listed :
       /\ notes.noteIds[k] # notes.editingNoteId
       /\ notes' = [notes EXCEPT !.editingNoteId = notes.noteIds[k],
                                 !.editingContent = notes.noteTexts[k]]
  /\ UNCHANGED <<taskVars, qaVars, fmtVars, ai>>

\* onChange of the textarea (line 247)
TypeEdit ==
  /\ notes.open /\ Editing
  /\ \E text \in EditTexts \ {notes.editingContent} :
       notes' = [notes EXCEPT !.editingContent = text]
  /\ UNCHANGED <<taskVars, qaVars, fmtVars, ai>>

\* Escape in the textarea or a click on Cancel (lines 251-254, 268-272)
CancelEdit ==
  /\ notes.open /\ Editing
  /\ notes' = [notes EXCEPT !.editingNoteId = 0, !.editingContent = <<>>]
  /\ UNCHANGED <<taskVars, qaVars, fmtVars, ai>>

\* handleUpdateNote from its start to its first await (lines 111-120), on
\* Cmd+Enter in the textarea (lines 248-250) or a click on Save (261-263)
HandleUpdateNote ==
  /\ notes.open /\ Editing
  /\ notes.edits < MaxEdits
  /\ Trim(notes.editingContent) # <<>>
  /\ ~notes.isEditProcessing
  /\ notes' = [notes EXCEPT
                 !.isEditProcessing = TRUE,
                 !.edits = @ + 1,
                 !.noteId = notes.editingNoteId,
                 !.processedContent = Trim(notes.editingContent),
                 !.editPc = IF HoldContent(Trim(notes.editingContent))
                              THEN "updateNote" ELSE "ai"]
  /\ UNCHANGED <<taskVars, qaVars, fmtVars, ai>>

\* processTextWithAI settles for the edited note (lines 120-121)
EditAIReturn ==
  /\ notes.editPc = "ai"
  /\ \E c \in Corrections(notes.processedContent) :
       LET aiResult == ProcessTextWithAI(notes.processedContent, <<>>,
                                         Completion(c.throws, c.content, "")) IN
         notes' = [notes EXCEPT
                     !.editPc = "updateNote",
                     !.processedContent = IF aiResult.correctedText # <<>>
                                            THEN aiResult.correctedText ELSE @]
  /\ UNCHANGED <<taskVars, qaVars, fmtVars, ai>>

\* updateNote resolves (lines 124-126, 130)
UpdateNoteResolve ==
  /\ notes.editPc = "updateNote"
  /\ notes' = [notes EXCEPT
                 !.noteTexts = [k \in DOMAIN notes.noteTexts |->
                                  IF notes.noteIds[k] = notes.noteId
                                    THEN notes.processedContent
                                    ELSE notes.noteTexts[k]],
                 !.editingNoteId = 0,
                 !.editingContent = <<>>,
                 !.isEditProcessing = FALSE,
                 !.editPc = "idle"]
  /\ UNCHANGED <<taskVars, qaVars, fmtVars, ai>>

\* updateNote rejects (lines 127-130)
UpdateNoteReject ==
  /\ notes.editPc = "updateNote"
  /\ notes' = [notes EXCEPT !.isEditProcessing = FALSE, !.editPc = "idle"]
  /\ UNCHANGED <<taskVars, qaVars, fmtVars, ai>>

\* handleDeleteNote to its await (lines 134-138), on a click on Delete of a
\* listed note (line 306) that is confirmed
HandleDeleteNote ==
  /\ notes.open
  /\ notes.deletes < MaxDeletes
  /\ \E k \in Listed :
       /\ notes.noteIds[k] # notes.editingNoteId
       /\ notes' = [notes EXCEPT !.deleting = @ \cup {notes.noteIds[k]},
                                 !.deletes = @ + 1]
  /\ UNCHANGED <<taskVars, qaVars, fmtVars, ai>>

\* deleteNote resolves (line 138)
DeleteNoteResolve ==
  /\ \E id \in notes.deleting :
       notes' = [notes EXCEPT
                   !.noteTexts = WithoutNote(notes.noteTexts, notes.noteIds, id,
                                             notes.noteTexts),
                   !.noteIds = WithoutNote(notes.noteTexts, notes.noteIds, id,
                                           notes.noteIds),
                   !.deleting = @ \ {id}]
  /\ UNCHANGED <<taskVars, qaVars, fmtVars, ai>>

\* deleteNote rejects: handleDeleteNote has no catch, nothing changes
DeleteNoteReject ==
  /\ \E id \in notes.deleting :
       notes' = [notes EXCEPT !.deleting = @ \ {id}]
  /\ UNCHANGED <<taskVars, qaVars, fmtVars, ai>>

NotesNext ==
  \/ OpenNotes
  \/ TypeNote
  \/ EscapeNote
  \/ TypeReason
  \/ EscapeReason
  \/ BackspaceReason
  \/ ClearOffHold
  \/ HandleAddNote
  \/ UpdateResolve
  \/ UpdateReject
  \/ NoteAIReturn
  \/ AddNoteResolve
  \/ AddNoteReject
  \/ ClickEdit
  \/ TypeEdit
  \/ CancelEdit
  \/ HandleUpdateNote
  \/ EditAIReturn
  \/ UpdateNoteResolve
  \/ UpdateNoteReject
  \/ HandleDeleteNote
  \/ DeleteNoteResolve
  \/ DeleteNoteReject

SpecNotes == Init /\ [][NotesNext]_vars

(***************************************************************************)
(* The properties.  Helpers first: the text of a title outside given       *)
(* positions, and the comparison of a residual title with it.              *)
(***************************************************************************)
\* the sentence of the specification's scenario
ScenarioTitle ==
  W.every \o <<" ">> \o W.tue \o W.sday \o <<" ">> \o W.at \o <<" ","6">> \o W.pm
    \o <<" ","c","a","l","l"," ","m","o","m">>

\* a handleSubmit has started
Submitted == calls # <<>>

\* the title the first handleSubmit read, its locals and its addItem argument
typedTitle == calls[1].typed

frame == calls[1].locals

newItem == calls[1].item

\* handleSubmit has extracted and waits for the AI: frame.extractedTitle is
\* the residual title before the AI correction
Extracted == Submitted /\ calls[1].pc = "awaitAI"

\* the positions start .. start+len-1
Span(start, len) == start..(start + len - 1)

\* s without the characters at the positions in drop
RECURSIVE Without(_, _, _)
Without(s, drop, i) ==
  IF i > Len(s) THEN <<>>
  ELSE (IF i \in drop THEN <<>> ELSE <<s[i]>>) \o Without(s, drop, i + 1)

\* every character of k is in the residual r, in order and unchanged, but
\* that the first character of r may be the upper case of k's
RECURSIVE KeptIn(_, _, _, _)
KeptIn(k, r, i, j) ==
  IF i > Len(k) THEN TRUE
  ELSE IF j > Len(r) THEN FALSE
  ELSE IF k[i] = r[j] \/ (j = 1 /\ ToUpperChar(k[i]) = r[j])
    THEN KeptIn(k, r, i + 1, j + 1)
    ELSE KeptIn(k, r, i, j + 1)

\* every character of the residual r is in s, in order and unchanged, but
\* that the first character of r may be the upper case of s's
RECURSIVE TakenFrom(_, _, _, _)
TakenFrom(r, s, i, j) ==
  IF i > Len(r) THEN TRUE
  ELSE IF j > Len(s) THEN FALSE
  ELSE IF r[i] = s[j] \/ (i = 1 /\ ToUpperChar(s[j]) = r[i])
    THEN TakenFrom(r, s, i + 1, j + 1)
    ELSE TakenFrom(r, s, i, j + 1)

\* where the rule that matched stands in the title
RuleSpan ==
  Span(RegexMatch(typedTitle, recurringPatterns[frame.rule].pattern).start,
       Len(frame.detectedRecurrence[1].originalText))

\* where the time expression stands in the title
TimeSpan == Span(frame.timeMatch[1].start, Len(frame.timeMatch[1].match0))

\* where the parsed date text stands in the title
DateSpan == Span(RegexMatch(typedTitle, chronoPattern).start, Len(frame.dateText))

\* the positions of the title the extraction matched
MatchedSpans ==
  IF frame.rule # 0
    THEN RuleSpan \cup (IF Defined(frame.timeMatch) THEN TimeSpan ELSE {})
    ELSE DateSpan

\* the stored time as numbers; <<-1, -1>> when it has not the shape DD:DD
StoredClock(time) ==
  IF Len(time) = 5 /\ time[3] = ":"
     /\ \A i \in {1, 2, 4, 5} : IsDigit(time[i])
    THEN <<ParseInt(SubSeq(time, 1, 2)), ParseInt(SubSeq(time, 4, 5))>>
    ELSE <<-1, -1>>

\* the 12-hour clock: 12am is 0, 1am..11am are 1..11, 12pm is 12,
\* 1pm..11pm are 13..23
Hour24(h, pm) == (h % 12) + (IF pm THEN 12 ELSE 0)

\* C1: the extraction never yields both a recurrence and a one-shot date:
\* once a rule matched, no date is parsed, and the item handed to addItem
\* never has both recurrence and reminderDate.
C1_MutuallyExclusive ==
  Submitted =>
    /\ ~(Defined(frame.detectedRecurrence) /\ Defined(frame.extractedDate))
    /\ frame.rule # 0 => ~Defined(frame.extractedDate) /\ frame.dateText = <<>>
    /\ Defined(newItem) =>
         /\ ~(Defined(newItem[1].recurrence) /\ Defined(newItem[1].reminderDate))
         /\ frame.rule # 0 =>
              Defined(newItem[1].recurrence) /\ ~Defined(newItem[1].reminderDate)
         /\ Defined(newItem[1].reminderDate) => ~Defined(newItem[1].recurrence)

\* a title with a recurrence phrase and a date the parser would find has
\* reached addItem with its recurrence
C1_Witness ==
  /\ Submitted /\ calls[1].pc = "awaitAddItem"
  /\ Defined(newItem[1].recurrence)
  /\ Len(ChronoParse(Trim(typedTitle))) > 0

\* quick-add rows that carry one of the two
OneOfTwo(row) == ~(Defined(row.recurrence) /\ Defined(row.reminder_date))

\* C2: every row the quick-add handler inserts carries at most one of
\* recurrence and reminder_date; when the client sent both, the recurrence
\* is stored and the date is not.
C2_AtMostOneOfTwo ==
  /\ \A i \in DOMAIN dbItems : OneOfTwo(dbItems[i])
  /\ Defined(qa.itemData) => OneOfTwo(qa.itemData[1])
  /\ (Defined(request.recurrence) /\ Defined(request.reminder_date)) =>
       \A i \in DOMAIN dbItems :
         /\ dbItems[i].recurrence = request.recurrence
         /\ ~Defined(dbItems[i].reminder_date)

\* a request with both fields was served and its row inserted
C2_Witness ==
  /\ Defined(request.recurrence)
  /\ Defined(request.reminder_date)
  /\ Len(dbItems) = 1
  /\ Defined(response) /\ response[1].success = Some(TRUE)

\* C3: for "every tuesday at 6pm call mom" the extraction yields a weekly
\* recurrence with dayOfWeek 2 and time 18:00, and the residual "Call mom".
C3_Scenario ==
  (Extracted /\ typedTitle = ScenarioTitle) =>
    /\ Defined(frame.detectedRecurrence)
    /\ frame.detectedRecurrence[1].frequency = "weekly"
    /\ frame.detectedRecurrence[1].time = <<"1","8",":","0","0">>
    /\ frame.extractedTitle = <<"C","a","l","l"," ","m","o","m">>
    /\ "dayOfWeek" \in DOMAIN frame.detectedRecurrence[1]
    /\ frame.detectedRecurrence[1].dayOfWeek = 2

\* C4: when a recurrence or a date was detected, the residual title does
\* not contain the matched text.
C4_ResidualWithoutSpan ==
  Extracted =>
    /\ frame.rule # 0 =>
         ~Includes(frame.extractedTitle, frame.detectedRecurrence[1].originalText)
    /\ frame.dateText # <<>> => ~Includes(frame.extractedTitle, frame.dateText)

\* C5: when a recurrence or a date was detected and the residual is not
\* empty, its first character is upper case, every character of the title
\* outside the matched spans (but the blanks trimmed at the ends) is in the
\* residual unchanged, and the residual holds nothing but the title's
\* characters.
C5_ResidualVerbatim ==
  (Extracted /\ (frame.rule # 0 \/ frame.dateText # <<>>)
     /\ frame.extractedTitle # <<>>) =>
    /\ ToUpperChar(frame.extractedTitle[1]) = frame.extractedTitle[1]
    /\ KeptIn(Trim(Without(typedTitle, MatchedSpans, 1)), frame.extractedTitle, 1, 1)
    /\ TakenFrom(frame.extractedTitle, typedTitle, 1, 1)

\* C6: when a rule matched and a time expression was found, the residual is
\* made of the title's characters outside the time expression: the time
\* expression is removed.
C6_TimeRemoved ==
  (Extracted /\ frame.rule # 0 /\ Defined(frame.timeMatch)) =>
    TakenFrom(frame.extractedTitle, Without(typedTitle, TimeSpan, 1), 1, 1)

\* C7: the stored time of a detected recurrence is HH:MM with HH in 00..23
\* and MM in 00..59, and 09:00 when no time expression was found.
C7_TimeIsWallClock ==
  (Extracted /\ frame.rule # 0) =>
    /\ StoredClock(frame.detectedRecurrence[1].time)[1] \in 0..23
    /\ StoredClock(frame.detectedRecurrence[1].time)[2] \in 0..59
    /\ ~Defined(frame.timeMatch) => frame.detectedRecurrence[1].time = DefaultTime

\* the time expression found carries a meridiem and an hour of 1..12
MeridiemCase ==
  /\ Extracted /\ frame.rule # 0 /\ Defined(frame.timeMatch)
  /\ frame.timeMatch[1].meridiem # <<>>
  /\ ParseInt(frame.timeMatch[1].hour) \in 1..12

\* the minutes as written in the time expression (none written: 0)
WrittenMinutes ==
  IF frame.timeMatch[1].minute = <<>> THEN 0
  ELSE ParseInt(Tail(frame.timeMatch[1].minute))

\* C8: with an explicit meridiem the stored hour follows the 12-hour clock
\* (12am is 0, 1am..11am are 1..11, 12pm is 12, 1pm..11pm are 13..23) and
\* the minutes are kept as written.
C8_MeridiemConversion ==
  MeridiemCase =>
    frame.detectedRecurrence[1].time =
      FormatTime(Hour24(ParseInt(frame.timeMatch[1].hour),
                        ToLowerCase(frame.timeMatch[1].meridiem) = W.pm),
                 WrittenMinutes)

\* 12am was typed and stored as hour 00
C8_Witness ==
  /\ MeridiemCase
  /\ frame.timeMatch[1].hour = <<"1","2">>
  /\ ToLowerCase(frame.timeMatch[1].meridiem) = W.am
  /\ SubSeq(frame.detectedRecurrence[1].time, 1, 2) = <<"0","0">>

\* the time expression found carries no meridiem and an hour of 1..23
NoMeridiemCase ==
  /\ Extracted /\ frame.rule # 0 /\ Defined(frame.timeMatch)
  /\ frame.timeMatch[1].meridiem = <<>>
  /\ ParseInt(frame.timeMatch[1].hour) \in 1..23

\* C9: without a meridiem an hour of 1..11 is stored as hour+12, and an hour
\* of 12 or of 13..23 is stored unchanged.
C9_NoMeridiemDefault ==
  NoMeridiemCase =>
    StoredClock(frame.detectedRecurrence[1].time)[1] =
      IF ParseInt(frame.timeMatch[1].hour) <= 11
        THEN ParseInt(frame.timeMatch[1].hour) + 12
        ELSE ParseInt(frame.timeMatch[1].hour)

\* an hour of 12 without a meridiem was typed and stored as 12
C9_Witness ==
  /\ NoMeridiemCase
  /\ frame.timeMatch[1].hour = <<"1","2">>
  /\ SubSeq(frame.detectedRecurrence[1].time, 1, 2) = <<"1","2">>

\* the number N of the phrase `every N hours` that the rule matched
HoursInPhrase ==
  ParseInt(SelectSeq(frame.detectedRecurrence[1].originalText, IsDigit))

\* C10: a title whose first matching rule is `every N hours` yields the
\* frequency hourly with interval N.
C10_EveryNHours ==
  (Extracted /\ frame.rule = 6) =>
    /\ frame.detectedRecurrence[1].frequency = "hourly"
    /\ "interval" \in DOMAIN frame.detectedRecurrence[1]
    /\ frame.detectedRecurrence[1].interval = HoursInPhrase

\* s begins with p
StartsWith(s, p) == Len(s) >= Len(p) /\ SubSeq(s, 1, Len(p)) = p

\* s ends with p
EndsWith(s, p) == Len(s) >= Len(p) /\ SubSeq(s, Len(s) - Len(p) + 1, Len(s)) = p

\* C11: a title whose first matching rule is `every <weekday>` yields the
\* frequency weekly and a descriptor whose dayOfWeek is the weekday matched
\* (Sunday 0 .. Saturday 6).
C11_WeekdaySetsDayOfWeek ==
  (Extracted /\ frame.rule = 5) =>
    /\ frame.detectedRecurrence[1].frequency = "weekly"
    /\ "dayOfWeek" \in DOMAIN frame.detectedRecurrence[1]
    /\ Some(frame.detectedRecurrence[1].dayOfWeek) =
         ExtractDayOfWeek(frame.detectedRecurrence[1].originalText)

\* the `every other|2nd|second <weekday>` phrase of the title, if any
EveryOtherPhrase == RegexMatch(typedTitle, recurringPatterns[7].pattern)

\* the display of the descriptor extracted is Biweekly on the weekday of
\* the phrase, at the descriptor's time, whatever the engine
RendersBiweekly ==
  \A lenient \in BOOLEAN :
    FormatRecurrence(AsSettings(frame.detectedRecurrence[1]), lenient).text =
      Template.biweekly \o Template.on
        \o DAYS_OF_WEEK[ExtractDayOfWeek(MatchText(typedTitle, EveryOtherPhrase))[1] + 1]
        \o Template.at
        \o FormatTimeDisplay(Some(frame.detectedRecurrence[1].time), lenient).text

\* C12 as stated: every title that contains an `every other|2nd|second
\* <weekday>` phrase, another recurrence word elsewhere or not, yields a
\* weekly descriptor that formatRecurrence renders as Biweekly on that day.
C12_AnyTitleWithPhrase ==
  (Extracted /\ EveryOtherPhrase.ok) =>
    /\ Defined(frame.detectedRecurrence)
    /\ frame.detectedRecurrence[1].frequency = "weekly"
    /\ RendersBiweekly

\* C12: a title whose first matching rule is `every other|2nd|second
\* <weekday>` yields a weekly descriptor whose originalText makes
\* formatRecurrence render `Biweekly on {DayName} at {T}`.
C12_BiweeklyRoundTrip ==
  (Extracted /\ frame.rule = 7) =>
    /\ frame.detectedRecurrence[1].frequency = "weekly"
    /\ RendersBiweekly

\* `every 2nd fri` was extracted by its rule
C12_Witness ==
  /\ Extracted /\ frame.rule = 7
  /\ ToLowerCase(frame.detectedRecurrence[1].originalText)
       = <<"e","v","e","r","y"," ","2","n","d"," ","f","r","i">>
  /\ RendersBiweekly

\* the date the parser finds in a text, Undefined when it finds none
ParsedDate(text) ==
  IF Len(ChronoParse(text)) > 0 THEN Some(ChronoParse(text)[1].date) ELSE Undefined

\* C13: when no rule matches, the text handleSubmit hands to the date
\* parser is the title with the numbers one..twelve replaced by digits, the
\* text the preview parses, and the date extracted is the date of that text.
C13_SubmitExpandsNumbers ==
  (Extracted /\ frame.rule = 0) =>
    /\ SubmitParsedText(typedTitle) = ExpandNumberWords(Trim(typedTitle))
    /\ SubmitParsedText(typedTitle) = Trim(PreviewParsedText(typedTitle))
    /\ frame.extractedDate = ParsedDate(ExpandNumberWords(Trim(typedTitle)))

\* formatRecurrence was called and has returned or thrown
Rendered == Defined(rendered) /\ Defined(recurrenceSettings)

\* C14: formatRecurrence returns a string for every descriptor, legal or
\* not, and never throws.
C14_Total ==
  Rendered => ~rendered[1].threw /\ Len(rendered[1].text) > 0

\* a descriptor of unknown frequency without originalText, whose time has
\* the shape of a time but is no time of the day, was rendered
C14_Witness ==
  /\ Rendered
  /\ recurrenceSettings[1].frequency = "fortnightly"
  /\ recurrenceSettings[1].time = Some(TimeText.late)
  /\ ~Defined(recurrenceSettings[1].originalText)
  /\ ~rendered[1].threw

\* the times that are missing, empty or not of the shape D:DD or DD:DD
MalformedTimes ==
  {Undefined, Some(TimeText.empty), Some(TimeText.seconds), Some(TimeText.words)}

\* C15: a descriptor whose time is missing, empty or not of the shape of
\* one or two digits, a colon and two digits is rendered with the time part
\* 9:00 AM, in every branch, without an exception.
C15_TimeFallback ==
  (Rendered /\ recurrenceSettings[1].time \in MalformedTimes) =>
    /\ ~rendered[1].threw
    /\ EndsWith(rendered[1].text, Template.at \o Template.fallback)

\* a time with seconds, which a Date would accept, was rendered as 9:00 AM
C15_Witness ==
  /\ Rendered
  /\ recurrenceSettings[1].time = Some(TimeText.seconds)
  /\ recurrenceSettings[1].frequency = "monthly"
  /\ EndsWith(rendered[1].text, Template.fallback)

\* a daily descriptor with a wall-clock time HH:MM was rendered
ClockRendered ==
  /\ Rendered
  /\ recurrenceSettings[1].frequency = "daily"
  /\ recurrenceSettings[1].time \in ClockTimes

\* C16: for every HH:MM with HH in 00..23 and MM in 00..59, the rendered
\* text read again by the extractor's time rule gives back the same HH:MM.
C16_TimeRoundTrip ==
  ClockRendered =>
    /\ Defined(TimeMatch(rendered[1].text))
    /\ TimeMatch(rendered[1].text)[1].meridiem \in {<<"A","M">>, <<"P","M">>}
    /\ TimeOf(TimeMatch(rendered[1].text)[1]) = recurrenceSettings[1].time[1]

\* half past midnight was rendered as 12:30 AM and read back as 00:30
C16_Witness ==
  /\ ClockRendered
  /\ recurrenceSettings[1].time = Some(<<"0","0",":","3","0">>)
  /\ rendered[1].text = <<"D","a","i","l","y"," ","a","t"," ","1","2",":","3","0"," ","A","M">>
  /\ TimeOf(TimeMatch(rendered[1].text)[1]) = <<"0","0",":","3","0">>

\* the ordinal suffix of a day of the month
OrdinalOf(n) ==
  IF n \in {1, 21, 31} THEN <<"s","t">>
  ELSE IF n \in {2, 22} THEN <<"n","d">>
  ELSE IF n \in {3, 23} THEN <<"r","d">>
  ELSE <<"t","h">>

\* the time part of the rendering of the descriptor at hand
TimePart == FormatTimeDisplay(recurrenceSettings[1].time, lenientDate).text

\* C17: a monthly descriptor with dayOfMonth N in 1..31 is rendered
\* `Monthly on the {N}{suffix} at {T}`, the suffix st for 1, 21, 31, nd for
\* 2, 22, rd for 3, 23 and th otherwise; dayOfMonth 3 with time 09:00 gives
\* "Monthly on the 3rd at 9:00 AM".
C17_Ordinals ==
  (Rendered /\ recurrenceSettings[1].frequency = "monthly"
     /\ Defined(recurrenceSettings[1].dayOfMonth)
     /\ recurrenceSettings[1].dayOfMonth[1] \in 1..31) =>
    /\ rendered[1].text =
         <<"M","o","n","t","h","l","y"," ","o","n"," ","t","h","e"," ">>
           \o NumToString(recurrenceSettings[1].dayOfMonth[1])
           \o OrdinalOf(recurrenceSettings[1].dayOfMonth[1])
           \o <<" ","a","t"," ">> \o TimePart
    /\ (recurrenceSettings[1].dayOfMonth[1] = 3
        /\ recurrenceSettings[1].time = Some(TimeText.nine)) =>
         rendered[1].text = <<"M","o","n","t","h","l","y"," ","o","n"," ","t","h","e"," ","3","r","d"," ","a","t"," ","9",":","0","0"," ","A","M">>

\* the 11th of the month was rendered
C17_Witness ==
  /\ Rendered
  /\ recurrenceSettings[1].frequency = "monthly"
  /\ recurrenceSettings[1].dayOfMonth = Some(11)
  /\ StartsWith(rendered[1].text, <<"M","o","n","t","h","l","y"," ","o","n"," ","t","h","e"," ","1","1","t","h"," ","a","t"," ">>)

\* the originalText values that hold `every` followed by the whole word
\* other, 2nd or second
BiweeklyTexts ==
  {Some(OriginalText.everyOtherTuesday), Some(OriginalText.every2ndFri),
   Some(OriginalText.everySecondSun)}

\* a weekly descriptor was rendered
WeeklyRendered == Rendered /\ recurrenceSettings[1].frequency = "weekly"

\* C18: a weekly descriptor is rendered with the prefix Biweekly exactly
\* when its originalText holds `every` followed by other, 2nd or second as
\* whole words, and with Weekly otherwise; weekly with dayOfWeek 2,
\* originalText "every other tuesday" and no time gives
\* "Biweekly on Tuesday at 9:00 AM".
C18_BiweeklyPrefix ==
  WeeklyRendered =>
    /\ StartsWith(rendered[1].text, <<"B","i","w","e","e","k","l","y"," ">>)
         <=> recurrenceSettings[1].originalText \in BiweeklyTexts
    /\ StartsWith(rendered[1].text, <<"W","e","e","k","l","y"," ">>)
         <=> recurrenceSettings[1].originalText \notin BiweeklyTexts
    /\ (recurrenceSettings[1].dayOfWeek = Some(2)
        /\ recurrenceSettings[1].originalText = Some(OriginalText.everyOtherTuesday)
        /\ recurrenceSettings[1].time = Undefined) =>
         rendered[1].text = <<"B","i","w","e","e","k","l","y"," ","o","n"," ","T","u","e","s","d","a","y"," ","a","t"," ","9",":","0","0"," ","A","M">>

\* the scenario of the specification was rendered
C18_Witness ==
  /\ WeeklyRendered
  /\ recurrenceSettings[1].dayOfWeek = Some(2)
  /\ recurrenceSettings[1].originalText = Some(OriginalText.everyOtherTuesday)
  /\ recurrenceSettings[1].time = Undefined
  /\ rendered[1].text = <<"B","i","w","e","e","k","l","y"," ","o","n"," ","T","u","e","s","d","a","y"," ","a","t"," ","9",":","0","0"," ","A","M">>

\* the weekday each originalText names as a whole word, the first of
\* sun, mon, tue, wed, thu, fri, sat that it holds, if any
NamedDay ==
  [everyOtherTuesday |-> Some(2),
   every2ndFri |-> Some(5),
   everySecondSun |-> Some(0),
   everyOtherwise |-> Some(4),
   everyother |-> Some(3),
   weekly |-> Undefined,
   everyMonday |-> Some(1),
   satAndMon |-> Some(1),
   everyMonth |-> Undefined,
   sundays |-> Undefined]

\* the day a weekly descriptor is to show: dayOfWeek when set, else the
\* day its originalText names
ShownDay(r) ==
  IF Defined(r.dayOfWeek) THEN r.dayOfWeek
  ELSE IF \E k \in DOMAIN OriginalText : r.originalText = Some(OriginalText[k])
    THEN NamedDay[CHOOSE k \in DOMAIN OriginalText :
                    r.originalText = Some(OriginalText[k])]
    ELSE Undefined

\* the names of the days, Sunday = 0
DayName(d) ==
  CASE d = 0 -> <<"S","u","n","d","a","y">>
    [] d = 1 -> <<"M","o","n","d","a","y">>
    [] d = 2 -> <<"T","u","e","s","d","a","y">>
    [] d = 3 -> <<"W","e","d","n","e","s","d","a","y">>
    [] d = 4 -> <<"T","h","u","r","s","d","a","y">>
    [] d = 5 -> <<"F","r","i","d","a","y">>
    [] d = 6 -> <<"S","a","t","u","r","d","a","y">>

\* the prefix of the rendering of the weekly descriptor at hand
ShownPrefix ==
  IF recurrenceSettings[1].originalText \in BiweeklyTexts
    THEN <<"B","i","w","e","e","k","l","y">> ELSE <<"W","e","e","k","l","y">>

\* C19: a weekly descriptor without dayOfWeek is rendered
\* `{prefix} on {DayName} at {T}` for the first weekday (of sun .. sat) its
\* originalText names as a whole word, in any case, and `{prefix} at {T}`
\* when it names none or is absent; with dayOfWeek set (0 = Sunday
\* included) the day is dayOfWeek, whatever the text.
C19_WeeklyDay ==
  (WeeklyRendered
     /\ (Defined(recurrenceSettings[1].dayOfWeek) =>
           recurrenceSettings[1].dayOfWeek[1] \in 0..6)) =>
    rendered[1].text =
      IF Defined(ShownDay(recurrenceSettings[1]))
        THEN ShownPrefix \o <<" ","o","n"," ">>
               \o DayName(ShownDay(recurrenceSettings[1])[1])
               \o <<" ","a","t"," ">> \o TimePart
        ELSE ShownPrefix \o <<" ","a","t"," ">> \o TimePart

\* dayOfWeek 0 with a text that names Tuesday was rendered as Sunday
C19_Witness ==
  /\ WeeklyRendered
  /\ recurrenceSettings[1].dayOfWeek = Some(0)
  /\ recurrenceSettings[1].originalText = Some(OriginalText.everyOtherTuesday)
  /\ StartsWith(rendered[1].text, <<"B","i","w","e","e","k","l","y"," ","o","n"," ","S","u","n","d","a","y"," ","a","t"," ">>)

\* an hourly or minutely descriptor was rendered
IntervalRendered ==
  /\ Rendered
  /\ recurrenceSettings[1].frequency \in {"hourly", "minutely"}

\* the rendering of a minutely descriptor: the interval, 1 when absent,
\* with the unit in the singular for 1
MinutelyAsClaimed ==
  recurrenceSettings[1].frequency = "minutely" =>
    /\ recurrenceSettings[1].interval \in {Undefined, Some(1)} =>
         rendered[1].text = <<"E","v","e","r","y"," ","1"," ","m","i","n","u","t","e"," ","s","t","a","r","t","i","n","g"," ","a","t"," ">> \o TimePart
    /\ (Defined(recurrenceSettings[1].interval)
        /\ recurrenceSettings[1].interval[1] > 1) =>
         rendered[1].text =
           <<"E","v","e","r","y"," ">> \o NumToString(recurrenceSettings[1].interval[1])
             \o <<" ","m","i","n","u","t","e","s"," ","s","t","a","r","t","i","n","g"," ","a","t"," ">> \o TimePart

\* the scenario: hourly, interval 3, time 14:00
HourlyScenario ==
  (recurrenceSettings[1].frequency = "hourly"
   /\ recurrenceSettings[1].interval = Some(3)
   /\ recurrenceSettings[1].time = Some(TimeText.two)) =>
    rendered[1].text = <<"E","v","e","r","y"," ","3"," ","h","o","u","r","s"," ","s","t","a","r","t","i","n","g"," ","a","t"," ","2",":","0","0"," ","P","M">>

\* the rendering of an hourly descriptor whose interval is one of single:
\* `Every hour`, and of any other: `Every {interval} hours`
HourlyWith(single) ==
  recurrenceSettings[1].frequency = "hourly" =>
    rendered[1].text =
      IF recurrenceSettings[1].interval \in single
        THEN <<"E","v","e","r","y"," ","h","o","u","r"," ","s","t","a","r","t","i","n","g"," ","a","t"," ">> \o TimePart
        ELSE <<"E","v","e","r","y"," ">> \o NumToString(recurrenceSettings[1].interval[1])
               \o <<" ","h","o","u","r","s"," ","s","t","a","r","t","i","n","g"," ","a","t"," ">> \o TimePart

\* C20 as stated: hourly renders `Every hour` for an interval of 1 or
\* absent and `Every {interval} hours` for every other interval.
C20_AsStated ==
  IntervalRendered =>
    MinutelyAsClaimed /\ HourlyScenario /\ HourlyWith({Undefined, Some(1)})

\* C20: the interval counts as 1 when absent or 0; hourly renders
\* `Every hour starting at {T}` for 1 and `Every {interval} hours starting
\* at {T}` for larger intervals, minutely `Every 1 minute starting at {T}`
\* for 1 and `Every {interval} minutes starting at {T}` for larger ones.
C20_IntervalUnits ==
  IntervalRendered =>
    /\ MinutelyAsClaimed
    /\ HourlyScenario
    /\ HourlyWith({Undefined, Some(0), Some(1)})
    /\ (recurrenceSettings[1].frequency = "minutely"
        /\ recurrenceSettings[1].interval = Some(0)) =>
         rendered[1].text = <<"E","v","e","r","y"," ","1"," ","m","i","n","u","t","e"," ","s","t","a","r","t","i","n","g"," ","a","t"," ">> \o TimePart

\* an hourly descriptor with interval 0 was rendered as `Every hour`
C20_Witness ==
  /\ IntervalRendered
  /\ recurrenceSettings[1].frequency = "hourly"
  /\ recurrenceSettings[1].interval = Some(0)
  /\ StartsWith(rendered[1].text, <<"E","v","e","r","y"," ","h","o","u","r"," ","s","t","a","r","t","i","n","g"," ","a","t"," ">>)

(***************************************************************************)
(* The modal: duplicates and submissions in flight.                        *)
(***************************************************************************)
\* neither trashed nor complete
ActiveItem(item) == ~Defined(item.deletedAt) /\ item.status # "complete"

\* an active item of storeItems has the title text, ignoring case
HeldActive(storeItems, text) ==
  \E k \in DOMAIN storeItems :
    /\ ActiveItem(storeItems[k])
    /\ ToLowerCase(storeItems[k].title) = ToLowerCase(text)

\* the handleSubmit invocations that are awaiting
InFlight == {i \in DOMAIN calls : calls[i].pc \in {"awaitAI", "awaitAddItem"}}

\* C21: a handleSubmit goes on to create an item only when no active item
\* has the typed title, ignoring case; and when the AI correction returned
\* its input unchanged, the title a successful submit stores is not the
\* title, ignoring case, of an active item the store already holds
C21_DuplicatePrevention ==
  [][ /\ \A i \in DOMAIN calls' :
           i > Len(calls) => ~HeldActive(items, Trim(calls'[i].typed))
      /\ \A i \in DOMAIN calls :
           ( /\ calls[i].pc = "awaitAddItem"
             /\ calls'[i].pc = "added"
             /\ calls[i].item[1].title = calls[i].locals.extractedTitle )
           => ~HeldActive(items, calls[i].item[1].title) ]_vars

\* C22: at most one handleSubmit is awaiting at any time, and two addItem
\* calls are made for the same typed title only when the earlier one failed
C22_OneSubmissionInFlight ==
  /\ Cardinality(InFlight) <= 1
  /\ \A i, j \in DOMAIN calls :
       ( /\ i < j
         /\ Defined(calls[i].item) /\ Defined(calls[j].item)
         /\ calls[i].typed = calls[j].typed )
       => calls[i].pc = "failed"

(***************************************************************************)
(* The preview and the submit.                                             *)
(***************************************************************************)
\* C23: what the live preview announces for the typed title (a recurring
\* pattern, a date, nothing) is what handleSubmit creates from it (an item
\* with a recurrence, with a reminder date, a plain task)
C23_PreviewAgreesWithSubmit ==
  Extracted => PreviewClass(typedTitle) = SubmitClass(frame)

(***************************************************************************)
(* The quick-add handler: checks, failures, lists, and the shape of the    *)
(* rows.                                                                   *)
(***************************************************************************)
\* the three checks of lines 19-22, 36-40 and 43-46 have passed
ChecksPassed ==
  /\ request.method = "POST"
  /\ request.authHeader
  /\ Defined(qa.user)
  /\ request.body = "json"
  /\ Defined(request.text) /\ request.text[1] # <<>>

\* the default list was inserted by this request
ListCreated == \E i \in DOMAIN dbLists : dbLists[i].id = "new"

\* a completion call was made or a row was inserted
SideEffect == aiCalls > 0 \/ ListCreated \/ dbItems # <<>>

\* the message of the first check the request fails
FirstFailedCheck ==
  IF ~request.authHeader THEN "Missing authorization header"
  ELSE IF ~Defined(qa.user) THEN "Invalid authorization token"
  ELSE IF request.body # "json" THEN "Unexpected end of JSON input"
  ELSE "Missing or invalid \"text\" field"

\* C24: a completion call or an insert happens only after the header, the
\* token and the text were checked, in this order; a request that fails a
\* check is answered 400 with success false and the message of the first
\* failed check; a preflight request is answered ok, with no check made and
\* nothing called or inserted
C24_ChecksBeforeEffects ==
  /\ SideEffect => ChecksPassed
  /\ Defined(qa.user) => request.authHeader
  /\ (qpc = "done" /\ request.method = "POST" /\ ~ChecksPassed) =>
       /\ response[1].status = 400
       /\ response[1].success = Some(FALSE)
       /\ response[1].error = FirstFailedCheck
  /\ request.method = "OPTIONS" =>
       /\ response = Some([status |-> 200, body |-> "ok", success |-> Undefined,
                           error |-> ""])
       /\ ~SideEffect
       /\ ~Defined(qa.user)

\* a request passed the three checks and its item was inserted
C24_Witness ==
  /\ ChecksPassed
  /\ aiCalls = 1
  /\ Len(dbItems) = 1
  /\ response[1].success = Some(TRUE)

\* C25: when the handler answers with a failure, no list row and no item
\* row was inserted by the request
C25_FailureLeavesStore ==
  (Defined(response) /\ response[1].success = Some(FALSE)) =>
    /\ ~ListCreated
    /\ dbItems = <<>>

\* the ids of the lists fetched by the request
FetchedIds ==
  IF Defined(qa.lists) THEN {qa.lists[1][i].id : i \in DOMAIN qa.lists[1]} ELSE {}

\* C26: the list_id of every inserted item is the id of a list fetched in
\* the request or of the default list created in it
C26_ListIdOfUser ==
  \A i \in DOMAIN dbItems :
    \/ dbItems[i].list_id \in FetchedIds
    \/ ListCreated /\ dbItems[i].list_id = "new"

\* the completion answered a list id the user does not have, and the item
\* went into the first of the user's lists
C26_Witness ==
  /\ qa.parsedListId = "unknown"
  /\ Len(dbItems) = 1
  /\ dbItems[1].list_id = "l1"
  /\ "l1" \in FetchedIds

\* the shape of a created item: reminder exactly with a recurrence or a
\* date, within7 with a recurrence, the given status with neither
WellTyped(type, status, hasRecurrence, hasDate, plainStatus) ==
  /\ type = (IF hasRecurrence \/ hasDate THEN "reminder" ELSE "task")
  /\ hasRecurrence => status = "within7"
  /\ (~hasRecurrence /\ ~hasDate) => status = plainStatus

\* the dates, recurrences and columns handleSubmit may hold at addItem
SubmitDates == {Undefined, Some([day |-> W.tomorrow, clock |-> <<>>])}

SubmitRecurrences ==
  {Undefined,
   Some([frequency |-> "daily", time |-> DefaultTime, originalText |-> W.daily])}

SubmitColumns == {Undefined, Some(""), Some("today")}

\* C27: every row quick-add builds or inserts, and every item handleSubmit
\* hands to addItem, is a reminder exactly when it carries a recurrence or
\* a reminder date; with a recurrence its status is within7; with neither
\* its status is start (in handleSubmit the default column, when one is
\* given and not the empty string)
C27_TypeAndStatus ==
  /\ \A i \in DOMAIN dbItems :
       WellTyped(dbItems[i].type, dbItems[i].status,
                 Defined(dbItems[i].recurrence),
                 Defined(dbItems[i].reminder_date), "start")
  /\ Defined(qa.itemData) =>
       WellTyped(qa.itemData[1].type, qa.itemData[1].status,
                 Defined(qa.itemData[1].recurrence),
                 Defined(qa.itemData[1].reminder_date), "start")
  /\ \A date \in SubmitDates, recurrence \in SubmitRecurrences,
        column \in SubmitColumns :
       LET item == NewItem(<<"C","a","l","l">>, "low", column, "l1", date,
                           recurrence)
       IN WellTyped(item.type, item.status, Defined(item.recurrence),
                    Defined(item.reminderDate),
                    IF Defined(column) /\ column[1] # ""
                      THEN column[1] ELSE "start")

\* a recurring reminder was inserted, with status within7
C27_Witness ==
  /\ Len(dbItems) = 1
  /\ Defined(dbItems[1].recurrence)
  /\ dbItems[1].type = "reminder"
  /\ dbItems[1].status = "within7"

(***************************************************************************)
(* The priority of a submitted item.                                       *)
(***************************************************************************)
\* C28: whatever the completion service answers at the await of
\* processTextWithAI, the item handed to addItem has the priority the
\* service gives the task, and low when the call throws
C28_PriorityFromAI ==
  Extracted =>
    \A completion \in Completions(frame.extractedTitle) :
      ItemAfterAI(frame, defaultColumn, calls[1].listId, Lists,
                  ProcessTextWithAI(frame.extractedTitle, Lists, completion)).priority
        = (IF completion.throws THEN "low" ELSE completion.priority)

(***************************************************************************)
(* processTextWithAI and the Notes panel.                                  *)
(***************************************************************************)
\* C29: whatever the completion service answers, the suggestedListId that
\* processTextWithAI returns is undefined or the id of one of the lists it
\* was given; and when the service throws, it returns its input text as
\* correctedText and no suggestedListId
C29_SuggestedListIsGiven ==
  Defined(ai.processed) =>
    /\ \/ ai.processed[1].suggestedListId = Undefined
       \/ \E i \in DOMAIN ai.lists :
            ai.lists[i].id = ai.processed[1].suggestedListId[1]
    /\ ai.completion[1].throws =>
         /\ ai.processed[1].correctedText = ai.text
         /\ ai.processed[1].suggestedListId = Undefined

\* the service named a list that was not given, and none was suggested
C29_Witness ==
  /\ Defined(ai.processed)
  /\ ~ai.completion[1].throws
  /\ Len(ai.lists) > 0
  /\ ai.completion[1].matchedId = "unknown"
  /\ ai.processed[1].suggestedListId = Undefined

\* the metadata keys other than onHold
OtherKeys(metadata) == DOMAIN metadata \ {"onHold"}

\* metadata has the keys and values of before, onHold aside
OthersKept(metadata, before) ==
  /\ OtherKeys(metadata) = OtherKeys(before)
  /\ \A k \in OtherKeys(before) : metadata[k] = before[k]

\* C30: the ON HOLD and the OFF HOLD tag are never both shown; while one is
\* shown the note input is empty; when no submission is awaiting,
\* isProcessing is false; after a submission in ON HOLD mode that succeeded
\* metadata.onHold is the trimmed reason, or an empty object, and after one
\* in OFF HOLD mode it is cleared, the other keys being as before
C30_HoldModes ==
  /\ ~(notes.showOnHoldTag /\ notes.showOffHoldTag)
  /\ (notes.showOnHoldTag \/ notes.showOffHoldTag) => notes.noteInput = <<>>
  /\ notes.pc = "idle" => ~notes.isProcessing
  /\ (notes.last.ok /\ notes.last.mode = "on") =>
       /\ notes.metadata.onHold =
            (IF Trim(notes.last.reason) # <<>>
               THEN Some([reason |-> Trim(notes.last.reason)])
               ELSE Some(<<>>))
       /\ OthersKept(notes.metadata, notes.last.before)
  /\ (notes.last.ok /\ notes.last.mode = "off") =>
       /\ notes.metadata.onHold = Undefined
       /\ OthersKept(notes.metadata, notes.last.before)

\* a hold with a reason was set on an item that had another metadata key
C30_Witness ==
  /\ notes.last.ok /\ notes.last.mode = "on"
  /\ Trim(notes.last.reason) # <<>>
  /\ notes.last.reason # Trim(notes.last.reason)
  /\ "color" \in DOMAIN notes.last.before
  /\ ~notes.isProcessing

====
